---- MODULE Spec2Model ----
(***************************************************************************)
(* Model of zmqNotifier's bucketed sliding aggregator                      *)
(* (src/src/zmqNotifier/tick_agg.py), its active window                    *)
(* (sliding_windows.py) and its segment tree (segment_tree.py).            *)
(*                                                                         *)
(* Time is counted in units of twelve hours from the epoch 1970-01-01, so  *)
(* timedelta(days=1) is 2 units.  Values are integers; Decimal("Infinity") *)
(* and Decimal("-Infinity") are integers beyond every modelled value.      *)
(***************************************************************************)
EXTENDS Integers, Sequences, FiniteSets, TLC

\* ------------------------------------------------------------------------
\* Bounds of the model
\* ------------------------------------------------------------------------
MaxTime == 3
MaxValue == 2
MaxAdds == 3
MaxK == 2
MaxWindowCap == 1
MaxTreeLen == 3
MaxWindowLen == 2
MaxPip == 25
MaxThreshold == 10
MaxTickTime == 4
MaxTicks == 3
MaxMinBuckets == 2
MaxCooldownTicks == 5
MaxCooldownUnit == 2
MaxConfigTicks == 3
MaxIsolationTicks == 4
MaxBatchBars == 2

\* ------------------------------------------------------------------------
\* Program constants
\* ------------------------------------------------------------------------
DECIMAL_POS_INF == 1000
DECIMAL_NEG_INF == 0 - 1000
\* timedelta(days=1), the horizon of the active window, in 12-hour units
ACTIVE_WINDOW == 2
\* Python's None for an Optional integer / datetime field
None == 0 - 1
\* the bucket spans modelled: shorter than, equal to and longer than one day
BucketSpans == 1 .. (ACTIVE_WINDOW + 1)

VARIABLES
    bucket_span,            \* self._bucket_span
    max_window,             \* self._max_window (None = unlimited)
    buckets,                \* self._buckets, deque of Bucket
    active_window,          \* self._active_window, a SlidingWindowMinMax
    current_bucket_start,   \* self._current_bucket_start
    segment_tree,           \* self._segment_tree
    tree_dirty,             \* self._tree_dirty
    accepted,               \* history: every point an add accepted, in order
    evicted,                \* history: every bucket popped by eviction, in order
    built_from,             \* history: the bucket deque the tree was built from
    t_buckets,              \* a bucket deque handed to SegmentTreeMinMax(...)
    t_tree,                 \* the SegmentTreeMinMax built from it
    t_query,                \* the last query(left_idx, right_idx) on it and its outcome
    sw,                     \* a SlidingWindowMinMax used on its own
    sw_added,               \* history: every point its add accepted, in order
    sc_pip_change,          \* a measured quantity handed to the scoring expression
    sc_threshold,           \* the threshold it is scored against
    sc_score,               \* the score computed from them (None before)
    config,                 \* VolatilityNotifier.config (the notifier settings)
    trackers,               \* VolatilityNotifier._trackers: symbol -> SymbolTracker
    alerts,                 \* history: the alerts logged by the last on_tick
    n_ticks,                \* history: the number of ticks the trackers accepted
    notified_at,            \* history: (symbol, timeframe) -> the timestamp of the
                            \* tick that logged its latest alert
    last_call,              \* history: the operation of the notifier that ran last,
                            \* with the counts update_config logged
    ticks_of,               \* history: symbol -> the ticks on_tick was called with
                            \* for it, in order
    resolved,               \* the last resolve_tracker_config(symbol) and its result
    flat_bar_counts,        \* MarketDataHandler._flat_bar_counts
    flat_streak,            \* history: (symbol, timeframe) -> the flat bars read in a
                            \* row since its last non-flat bar or unsubscribe
    unsubscribed            \* history: the symbols the last process() unsubscribed

aggVars == <<bucket_span, max_window, buckets, active_window, current_bucket_start,
             segment_tree, tree_dirty, accepted, evicted, built_from>>
treeVars == <<t_buckets, t_tree, t_query>>
winVars == <<sw, sw_added>>
\* the variables outside the aggregator, the segment tree, the window
scoreVars == <<sc_pip_change, sc_threshold, sc_score>>
notifierVars == <<config, trackers, alerts, n_ticks, notified_at, last_call>>
\* the variables outside the aggregator, the segment tree, the window, the
\* score, the notifier
traceVars == <<ticks_of>>
resolveVars == <<resolved>>
handlerVars == <<flat_bar_counts, flat_streak, unsubscribed>>
notAggVars == <<treeVars, winVars, scoreVars, notifierVars, traceVars, resolveVars,
                handlerVars>>
notTreeVars == <<aggVars, winVars, scoreVars, notifierVars, traceVars, resolveVars,
                 handlerVars>>
notWinVars == <<aggVars, treeVars, scoreVars, notifierVars, traceVars, resolveVars,
                handlerVars>>
notScoreVars == <<aggVars, treeVars, winVars, notifierVars, traceVars, resolveVars,
                  handlerVars>>
notNotifierVars == <<aggVars, treeVars, winVars, scoreVars, traceVars, resolveVars,
                     handlerVars>>
notHandlerVars == <<aggVars, treeVars, winVars, scoreVars, notifierVars, traceVars,
                    resolveVars>>
vars == <<aggVars, treeVars, winVars, scoreVars, notifierVars, traceVars, resolveVars,
          handlerVars>>

Min2(a, b) == IF a <= b THEN a ELSE b
Max2(a, b) == IF a >= b THEN a ELSE b
Last(s) == s[Len(s)]
Front(s) == SubSeq(s, 1, Len(s) - 1)

\* ------------------------------------------------------------------------
\* sliding_windows.py : SlidingWindowMinMax
\* ------------------------------------------------------------------------
WindowPoint(ts, v, id) == [timestamp |-> ts, value |-> v, id |-> id]

NewSlidingWindowMinMax(window) ==
    [window |-> window, points |-> <<>>, min_candidates |-> <<>>, max_candidates |-> <<>>]

RECURSIVE PopMinCandidates(_, _)
PopMinCandidates(c, value) ==
    IF Len(c) > 0 /\ Last(c).value >= value THEN PopMinCandidates(Front(c), value) ELSE c

RECURSIVE PopMaxCandidates(_, _)
PopMaxCandidates(c, value) ==
    IF Len(c) > 0 /\ Last(c).value <= value THEN PopMaxCandidates(Front(c), value) ELSE c

\* variant of _expire that keeps a point lying exactly on the cutoff
RECURSIVE Expire_KeepsCutoff(_, _)
Expire_KeepsCutoff(w, now) ==
    LET cutoff == now - w.window IN
    IF Len(w.points) > 0 /\ w.points[1].timestamp < cutoff
    THEN LET expired == Head(w.points)
             minc == IF Len(w.min_candidates) > 0 /\ w.min_candidates[1].id = expired.id
                     THEN Tail(w.min_candidates) ELSE w.min_candidates
             maxc == IF Len(w.max_candidates) > 0 /\ w.max_candidates[1].id = expired.id
                     THEN Tail(w.max_candidates) ELSE w.max_candidates
         IN Expire_KeepsCutoff([w EXCEPT !.points = Tail(w.points),
                                         !.min_candidates = minc,
                                         !.max_candidates = maxc], now)
    ELSE w

\* variant of _expire whose cutoff is now itself, so the point just added expires too
RECURSIVE Expire_ThroughNow(_, _)
Expire_ThroughNow(w, now) ==
    LET cutoff == now IN
    IF Len(w.points) > 0 /\ w.points[1].timestamp <= cutoff
    THEN LET expired == Head(w.points)
             minc == IF Len(w.min_candidates) > 0 /\ w.min_candidates[1].id = expired.id
                     THEN Tail(w.min_candidates) ELSE w.min_candidates
             maxc == IF Len(w.max_candidates) > 0 /\ w.max_candidates[1].id = expired.id
                     THEN Tail(w.max_candidates) ELSE w.max_candidates
         IN Expire_ThroughNow([w EXCEPT !.points = Tail(w.points),
                                        !.min_candidates = minc,
                                        !.max_candidates = maxc], now)
    ELSE w

\* variant of _expire whose cutoff lies one unit later
RECURSIVE Expire_EarlyCutoff(_, _)
Expire_EarlyCutoff(w, now) ==
    LET cutoff == now - w.window + 1 IN
    IF Len(w.points) > 0 /\ w.points[1].timestamp <= cutoff
    THEN LET expired == Head(w.points)
             minc == IF Len(w.min_candidates) > 0 /\ w.min_candidates[1].id = expired.id
                     THEN Tail(w.min_candidates) ELSE w.min_candidates
             maxc == IF Len(w.max_candidates) > 0 /\ w.max_candidates[1].id = expired.id
                     THEN Tail(w.max_candidates) ELSE w.max_candidates
         IN Expire_EarlyCutoff([w EXCEPT !.points = Tail(w.points),
                                         !.min_candidates = minc,
                                         !.max_candidates = maxc], now)
    ELSE w

\* _expire: drops the points at or before now - window
RECURSIVE Expire(_, _)
Expire(w, now) ==
    LET cutoff == now - w.window IN
    IF Len(w.points) > 0 /\ w.points[1].timestamp <= cutoff
    THEN LET expired == Head(w.points)
             minc == IF Len(w.min_candidates) > 0 /\ w.min_candidates[1].id = expired.id
                     THEN Tail(w.min_candidates) ELSE w.min_candidates
             maxc == IF Len(w.max_candidates) > 0 /\ w.max_candidates[1].id = expired.id
                     THEN Tail(w.max_candidates) ELSE w.max_candidates
         IN Expire([w EXCEPT !.points = Tail(w.points),
                             !.min_candidates = minc,
                             !.max_candidates = maxc], now)
    ELSE w

\* variant of add that checks the order only after it has appended the point
WindowAdd_AppendsFirst(w, ts, v, id) ==
    LET point == WindowPoint(ts, v, id)
        w1 == [w EXCEPT !.points = Append(w.points, point),
                        !.min_candidates = Append(PopMinCandidates(w.min_candidates, v), point),
                        !.max_candidates = Append(PopMaxCandidates(w.max_candidates, v), point)]
    IN IF Len(w.points) > 0 /\ ts < Last(w.points).timestamp
       THEN [err |-> TRUE, w |-> w1]
       ELSE [err |-> FALSE, w |-> Expire(w1, ts)]

\* SlidingWindowMinMax.add: err = TRUE when it raises ValueError
WindowAdd(w, ts, v, id) ==
    IF Len(w.points) > 0 /\ ts < Last(w.points).timestamp
    THEN [err |-> TRUE, w |-> w]
    ELSE LET point == WindowPoint(ts, v, id)
             w1 == [w EXCEPT !.points = Append(w.points, point),
                             !.min_candidates = Append(PopMinCandidates(w.min_candidates, v), point),
                             !.max_candidates = Append(PopMaxCandidates(w.max_candidates, v), point)]
         IN [err |-> FALSE, w |-> Expire(w1, ts)]

\* current_min / current_max: err = TRUE when it raises LookupError
CurrentMin(w) ==
    IF Len(w.min_candidates) = 0 THEN [err |-> TRUE, point |-> WindowPoint(None, DECIMAL_POS_INF, None)]
    ELSE [err |-> FALSE, point |-> w.min_candidates[1]]

CurrentMax(w) ==
    IF Len(w.max_candidates) = 0 THEN [err |-> TRUE, point |-> WindowPoint(None, DECIMAL_NEG_INF, None)]
    ELSE [err |-> FALSE, point |-> w.max_candidates[1]]

\* ------------------------------------------------------------------------
\* tick_agg.py : Bucket
\* ------------------------------------------------------------------------
Bucket(start, end, min_value, max_value, count) ==
    [start |-> start, end |-> end, min_value |-> min_value, max_value |-> max_value, count |-> count]

IsEmpty(bucket) == bucket.count = 0

\* ------------------------------------------------------------------------
\* segment_tree.py : SegmentTreeMinMax
\* ------------------------------------------------------------------------
Neutral == <<DECIMAL_POS_INF, DECIMAL_NEG_INF, 0>>

\* variant of _merge_values that adds the counts up instead of taking the larger
MergeValues_SumCount(left, right) ==
    <<Min2(left[1], right[1]), Max2(left[2], right[2]), left[3] + right[3]>>

MergeValues(left, right) ==
    <<Min2(left[1], right[1]), Max2(left[2], right[2]), Max2(left[3], right[3])>>

\* bks is 1-indexed in the model: bucket index i of the code is bks[i + 1]
RECURSIVE Build(_, _, _, _, _)
Build(tree, bks, node, start, end) ==
    IF start = end
    THEN LET bucket == bks[start + 1] IN
         IF ~IsEmpty(bucket)
         THEN [tree EXCEPT ![node] = <<bucket.min_value, bucket.max_value, bucket.count>>]
         ELSE tree
    ELSE LET mid == (start + end) \div 2
             left_child == 2 * node + 1
             right_child == 2 * node + 2
             t1 == Build(tree, bks, left_child, start, mid)
             t2 == Build(t1, bks, right_child, mid + 1, end)
         IN [t2 EXCEPT ![node] = MergeValues(t2[left_child], t2[right_child])]

\* SegmentTreeMinMax.__init__
NewSegmentTree(bks) ==
    LET n == Len(bks) IN
    IF n = 0 THEN [n |-> 0, tree |-> <<>>]
    ELSE [n |-> n, tree |-> Build([i \in 0 .. (4 * n - 1) |-> Neutral], bks, 0, 0, n - 1)]

\* the value of self._segment_tree before the first build (None)
NoTree == [n |-> None, tree |-> <<>>]

RECURSIVE QueryRange(_, _, _, _, _, _)
QueryRange(tree, node, node_start, node_end, query_left, query_right) ==
    IF query_right < node_start \/ query_left > node_end THEN Neutral
    ELSE IF query_left <= node_start /\ node_end <= query_right THEN tree[node]
    ELSE LET mid == (node_start + node_end) \div 2
             left_child == 2 * node + 1
             right_child == 2 * node + 2
         IN MergeValues(QueryRange(tree, left_child, node_start, mid, query_left, query_right),
                        QueryRange(tree, right_child, mid + 1, node_end, query_left, query_right))

ValidRange(n, left_idx, right_idx) == ~(left_idx < 0 \/ right_idx >= n \/ left_idx > right_idx)

\* SegmentTreeMinMax.query: err = TRUE when _validate_range raises ValueError
TreeQuery(st, left_idx, right_idx) ==
    IF st.n = 0 THEN [err |-> FALSE, val |-> Neutral]
    ELSE IF ~ValidRange(st.n, left_idx, right_idx) THEN [err |-> TRUE, val |-> Neutral]
    ELSE [err |-> FALSE, val |-> QueryRange(st.tree, 0, 0, st.n - 1, left_idx, right_idx)]

\* ------------------------------------------------------------------------
\* tick_agg.py : BucketedSlidingAggregator, helpers
\* ------------------------------------------------------------------------
\* variant of _align_to_bucket_boundary that returns the timestamp itself
AlignToBucketBoundary_Identity(timestamp, span) == timestamp

\* variant of _align_to_bucket_boundary that rounds to the nearest boundary
AlignToBucketBoundary_Nearest(timestamp, span) ==
    LET bucket_count == (timestamp + span \div 2) \div span IN bucket_count * span

\* epoch is time 0 of the model
AlignToBucketBoundary(timestamp, span) ==
    LET bucket_count == timestamp \div span IN bucket_count * span

IsNewBucket(cbs, bucket_start) == cbs # None /\ bucket_start # cbs

\* variant of _validate_timestamp without the check against the active window
ValidateTimestamp_NoWindowCheck(bks, w, timestamp) ==
    IF Len(bks) > 0 /\ timestamp < Last(bks).end THEN FALSE ELSE TRUE

\* variant of _validate_timestamp that also refuses an equal timestamp
ValidateTimestamp_Strict(bks, w, timestamp) ==
    IF Len(bks) > 0 /\ timestamp < Last(bks).end THEN FALSE
    ELSE IF Len(w.points) > 0 /\ timestamp <= Last(w.points).timestamp THEN FALSE
    ELSE TRUE

\* _validate_timestamp: TRUE when it returns, FALSE when it raises ValueError
ValidateTimestamp(bks, w, timestamp) ==
    IF Len(bks) > 0 /\ timestamp < Last(bks).end THEN FALSE
    ELSE IF Len(w.points) > 0 /\ timestamp < Last(w.points).timestamp THEN FALSE
    ELSE TRUE

\* variant of _get_active_window_stats that reports zeros for an empty window
GetActiveWindowStats_Zero(w) ==
    IF CurrentMin(w).err \/ CurrentMax(w).err
    THEN <<0, None, 0, None, 0>>
    ELSE <<CurrentMin(w).point.value, CurrentMin(w).point.timestamp,
           CurrentMax(w).point.value, CurrentMax(w).point.timestamp, Len(w.points)>>

\* (min_value, min_timestamp, max_value, max_timestamp, count)
GetActiveWindowStats(w) ==
    IF CurrentMin(w).err \/ CurrentMax(w).err
    THEN <<DECIMAL_POS_INF, None, DECIMAL_NEG_INF, None, 0>>
    ELSE <<CurrentMin(w).point.value, CurrentMin(w).point.timestamp,
           CurrentMax(w).point.value, CurrentMax(w).point.timestamp, Len(w.points)>>

\* variant of _create_bucket_from_active_window whose bucket ends one unit late
CreateBucketFromActiveWindow_EndsLate(w, cbs, span) ==
    LET bucket_end == cbs + span + 1 IN
    IF Len(w.points) = 0
    THEN Bucket(cbs, bucket_end, DECIMAL_POS_INF, DECIMAL_NEG_INF, 0)
    ELSE Bucket(cbs, bucket_end, CurrentMin(w).point.value, CurrentMax(w).point.value,
                Len(w.points))

\* _create_bucket_from_active_window: the Bucket of the span that just closed
CreateBucketFromActiveWindow(w, cbs, span) ==
    LET bucket_end == cbs + span IN
    IF Len(w.points) = 0
    THEN Bucket(cbs, bucket_end, DECIMAL_POS_INF, DECIMAL_NEG_INF, 0)
    ELSE Bucket(cbs, bucket_end, CurrentMin(w).point.value, CurrentMax(w).point.value,
                Len(w.points))

\* variant of _evict_old_buckets that keeps one bucket too many
RECURSIVE EvictOldBuckets_OffByOne(_, _)
EvictOldBuckets_OffByOne(bks, mw) ==
    IF mw # None /\ Len(bks) > mw + 1 THEN EvictOldBuckets_OffByOne(Tail(bks), mw) ELSE bks

\* variant of _evict_old_buckets that pops the newest bucket (pop for popleft)
RECURSIVE EvictOldBuckets_PopRight(_, _)
EvictOldBuckets_PopRight(bks, mw) ==
    IF mw # None /\ Len(bks) > mw THEN EvictOldBuckets_PopRight(Front(bks), mw) ELSE bks

RECURSIVE EvictOldBuckets(_, _)
EvictOldBuckets(bks, mw) ==
    IF mw # None /\ Len(bks) > mw THEN EvictOldBuckets(Tail(bks), mw) ELSE bks

\* the buckets of grown that kept no longer holds
Popped(grown, kept) ==
    SelectSeq(grown, LAMBDA b : \A j \in DOMAIN kept : kept[j] # b)

\* variant of _condense_active_bucket that leaves _tree_dirty as it was
CondenseActiveBucket_KeepsFlag(bks, w, cbs, span, mw, dirty) ==
    IF cbs = None
    THEN [buckets |-> bks, active_window |-> w, tree_dirty |-> dirty,
          appended |-> <<>>, popped |-> <<>>]
    ELSE LET bucket == CreateBucketFromActiveWindow(w, cbs, span)
             grown == Append(bks, bucket)
             kept == EvictOldBuckets(grown, mw)
         IN [buckets |-> kept,
             active_window |-> NewSlidingWindowMinMax(ACTIVE_WINDOW),
             tree_dirty |-> dirty,
             appended |-> <<bucket>>,
             popped |-> Popped(grown, kept)]

\* _condense_active_bucket, as the new values of the fields it assigns;
\* appended and popped report the bucket it appended and the buckets it evicted
CondenseActiveBucket(bks, w, cbs, span, mw, dirty) ==
    IF cbs = None
    THEN [buckets |-> bks, active_window |-> w, tree_dirty |-> dirty,
          appended |-> <<>>, popped |-> <<>>]
    ELSE LET bucket == CreateBucketFromActiveWindow(w, cbs, span)
             grown == Append(bks, bucket)
             kept == EvictOldBuckets(grown, mw)
         IN [buckets |-> kept,
             active_window |-> NewSlidingWindowMinMax(ACTIVE_WINDOW),
             tree_dirty |-> TRUE,
             appended |-> <<bucket>>,
             popped |-> Popped(grown, kept)]

\* variant of the binary search that also skips a bucket starting at lookback_start
RECURSIVE BinarySearch_SkipsEqual(_, _, _, _)
BinarySearch_SkipsEqual(bks, lookback_start, left, right) ==
    IF left < right
    THEN LET mid == (left + right) \div 2 IN
         IF bks[mid + 1].start <= lookback_start
         THEN BinarySearch_SkipsEqual(bks, lookback_start, mid + 1, right)
         ELSE BinarySearch_SkipsEqual(bks, lookback_start, left, mid)
    ELSE left

\* binary search for the leftmost bucket with start >= lookback_start
RECURSIVE BinarySearch(_, _, _, _)
BinarySearch(bks, lookback_start, left, right) ==
    IF left < right
    THEN LET mid == (left + right) \div 2 IN
         IF bks[mid + 1].start < lookback_start
         THEN BinarySearch(bks, lookback_start, mid + 1, right)
         ELSE BinarySearch(bks, lookback_start, left, mid)
    ELSE left

\* variant of _find_first_bucket_in_range without the final bounds check
FindFirstBucketInRange_NoBoundsCheck(bks, lookback_start) ==
    IF Len(bks) = 0 THEN 0 - 1
    ELSE BinarySearch(bks, lookback_start, 0, Len(bks))

\* _find_first_bucket_in_range: index of the first bucket in range, or -1
FindFirstBucketInRange(bks, lookback_start) ==
    IF Len(bks) = 0 THEN 0 - 1
    ELSE LET left == BinarySearch(bks, lookback_start, 0, Len(bks)) IN
         IF left < Len(bks) /\ bks[left + 1].start >= lookback_start THEN left ELSE 0 - 1

\* variant of _rebuild_tree_if_dirty that builds the tree once and never again
RebuildTreeIfDirty_OnlyOnce(bks, st, dirty) ==
    IF dirty /\ Len(bks) > 0 /\ st = NoTree
    THEN [segment_tree |-> NewSegmentTree(bks), tree_dirty |-> FALSE, rebuilt |-> TRUE]
    ELSE [segment_tree |-> st, tree_dirty |-> dirty, rebuilt |-> FALSE]

\* _rebuild_tree_if_dirty, as the new values of _segment_tree and _tree_dirty
RebuildTreeIfDirty(bks, st, dirty) ==
    IF dirty /\ Len(bks) > 0
    THEN [segment_tree |-> NewSegmentTree(bks), tree_dirty |-> FALSE, rebuilt |-> TRUE]
    ELSE [segment_tree |-> st, tree_dirty |-> dirty, rebuilt |-> FALSE]

\* _query_historical_buckets: the value returned (err = TRUE when the tree's
\* query raises ValueError) and the tree fields after the call
QueryHistoricalBuckets(bks, cbs, span, st, dirty, num_buckets) ==
    IF Len(bks) = 0 \/ cbs = None
    THEN [err |-> FALSE, val |-> Neutral, segment_tree |-> st, tree_dirty |-> dirty,
          rebuilt |-> FALSE, read_tree |-> FALSE]
    ELSE LET rb == RebuildTreeIfDirty(bks, st, dirty)
             lookback_start == cbs - num_buckets * span
             left_idx == FindFirstBucketInRange(bks, lookback_start)
             right_idx == Len(bks) - 1
         IN IF left_idx = 0 - 1 \/ rb.segment_tree = NoTree
            THEN [err |-> FALSE, val |-> Neutral, segment_tree |-> rb.segment_tree,
                  tree_dirty |-> rb.tree_dirty, rebuilt |-> rb.rebuilt, read_tree |-> FALSE]
            ELSE LET q == TreeQuery(rb.segment_tree, left_idx, right_idx) IN
                 [err |-> q.err, val |-> q.val, segment_tree |-> rb.segment_tree,
                  tree_dirty |-> rb.tree_dirty, rebuilt |-> rb.rebuilt, read_tree |-> TRUE]

\* variant of query_min_max without the check of num_buckets < 0
QueryMinMaxOf_NoNegativeCheck(bks, w, cbs, span, st, dirty, num_buckets) ==
    LET stats == GetActiveWindowStats(w)
        active == <<stats[1], stats[3], stats[5]>>
        h == IF num_buckets > 0
             THEN QueryHistoricalBuckets(bks, cbs, span, st, dirty, num_buckets)
             ELSE [err |-> FALSE, val |-> Neutral, segment_tree |-> st,
                   tree_dirty |-> dirty, rebuilt |-> FALSE, read_tree |-> FALSE]
        merged == IF num_buckets > 0 THEN MergeValues(active, h.val) ELSE active
    IN [outcome |-> IF h.err THEN "ValueError"
                    ELSE IF merged[1] = DECIMAL_POS_INF THEN "LookupError" ELSE "ok",
        result |-> IF h.err \/ merged[1] = DECIMAL_POS_INF THEN Neutral ELSE merged,
        segment_tree |-> h.segment_tree, tree_dirty |-> h.tree_dirty,
        rebuilt |-> h.rebuilt, read_tree |-> h.read_tree]

\* query_min_max: outcome "ok" with the returned (min, max, max_count), or the
\* exception raised, and the tree fields after the call
QueryMinMaxOf(bks, w, cbs, span, st, dirty, num_buckets) ==
    IF num_buckets < 0
    THEN [outcome |-> "ValueError", result |-> Neutral, segment_tree |-> st,
          tree_dirty |-> dirty, rebuilt |-> FALSE, read_tree |-> FALSE]
    ELSE LET stats == GetActiveWindowStats(w)
             active == <<stats[1], stats[3], stats[5]>>
             h == IF num_buckets > 0
                  THEN QueryHistoricalBuckets(bks, cbs, span, st, dirty, num_buckets)
                  ELSE [err |-> FALSE, val |-> Neutral, segment_tree |-> st,
                        tree_dirty |-> dirty, rebuilt |-> FALSE, read_tree |-> FALSE]
             merged == IF num_buckets > 0 THEN MergeValues(active, h.val) ELSE active
         IN [outcome |-> IF h.err THEN "ValueError"
                         ELSE IF merged[1] = DECIMAL_POS_INF THEN "LookupError" ELSE "ok",
             result |-> IF h.err \/ merged[1] = DECIMAL_POS_INF THEN Neutral ELSE merged,
             segment_tree |-> h.segment_tree, tree_dirty |-> h.tree_dirty,
             rebuilt |-> h.rebuilt, read_tree |-> h.read_tree]

ComputeDirection(min_value, min_timestamp, max_value, max_timestamp) ==
    IF min_timestamp = None \/ max_timestamp = None THEN 0
    ELSE IF min_timestamp <= max_timestamp THEN max_value - min_value
    ELSE min_value - max_value

\* get_active_direction: outcome "ok" with the signed delta, or "LookupError"
GetActiveDirectionOf(w) ==
    LET stats == GetActiveWindowStats(w) IN
    IF stats[1] = DECIMAL_POS_INF \/ stats[3] = DECIMAL_NEG_INF
    THEN [outcome |-> "LookupError", result |-> 0]
    ELSE [outcome |-> "ok", result |-> ComputeDirection(stats[1], stats[2], stats[3], stats[4])]

\* variant of add that also appends an empty Bucket for every span it skipped
AddOf_FillsGaps(bks, w, cbs, span, mw, dirty, timestamp, value, id) ==
    IF ~ValidateTimestamp(bks, w, timestamp)
    THEN [err |-> TRUE, buckets |-> bks, active_window |-> w,
          current_bucket_start |-> cbs, tree_dirty |-> dirty,
          appended |-> <<>>, popped |-> <<>>]
    ELSE LET bucket_start == AlignToBucketBoundary(timestamp, span)
             c == IF IsNewBucket(cbs, bucket_start)
                  THEN CondenseActiveBucket(bks, w, cbs, span, mw, dirty)
                  ELSE [buckets |-> bks, active_window |-> w, tree_dirty |-> dirty,
                        appended |-> <<>>, popped |-> <<>>]
             skipped == IF IsNewBucket(cbs, bucket_start)
                        THEN (bucket_start - cbs) \div span - 1 ELSE 0
             gaps == [i \in 1 .. skipped |->
                         Bucket(cbs + i * span, cbs + (i + 1) * span,
                                DECIMAL_POS_INF, DECIMAL_NEG_INF, 0)]
             grown == c.buckets \o gaps
             kept == EvictOldBuckets(grown, mw)
             a == WindowAdd(c.active_window, timestamp, value, id)
         IN [err |-> a.err, buckets |-> kept, active_window |-> a.w,
             current_bucket_start |-> bucket_start, tree_dirty |-> c.tree_dirty,
             appended |-> c.appended \o gaps, popped |-> c.popped \o Popped(grown, kept)]

\* BucketedSlidingAggregator.add: the fields after the call and whether it
\* raised ValueError (from _validate_timestamp or from the active window's add)
AddOf(bks, w, cbs, span, mw, dirty, timestamp, value, id) ==
    IF ~ValidateTimestamp(bks, w, timestamp)
    THEN [err |-> TRUE, buckets |-> bks, active_window |-> w,
          current_bucket_start |-> cbs, tree_dirty |-> dirty,
          appended |-> <<>>, popped |-> <<>>]
    ELSE LET bucket_start == AlignToBucketBoundary(timestamp, span)
             c == IF IsNewBucket(cbs, bucket_start)
                  THEN CondenseActiveBucket(bks, w, cbs, span, mw, dirty)
                  ELSE [buckets |-> bks, active_window |-> w, tree_dirty |-> dirty,
                        appended |-> <<>>, popped |-> <<>>]
             a == WindowAdd(c.active_window, timestamp, value, id)
         IN [err |-> a.err, buckets |-> c.buckets, active_window |-> a.w,
             current_bucket_start |-> bucket_start, tree_dirty |-> c.tree_dirty,
             appended |-> c.appended, popped |-> c.popped]

\* ------------------------------------------------------------------------
\* notifier.py : the scoring expression of SymbolTracker._calculate
\* ------------------------------------------------------------------------
\* variant of the logarithm that rounds up (ceil for floor)
RECURSIVE FloorLog2_RoundsUp(_, _)
FloorLog2_RoundsUp(num, den) ==
    IF num > den THEN 1 + FloorLog2_RoundsUp(num, 2 * den)
    ELSE IF 2 * num > den THEN 0
    ELSE FloorLog2_RoundsUp(2 * num, den) - 1

\* math.floor(math.log2(num / den)) for num > 0 and den > 0; the doubles are
\* exact at the magnitudes of the model
RECURSIVE FloorLog2(_, _)
FloorLog2(num, den) ==
    IF num >= 2 * den THEN 1 + FloorLog2(num, 2 * den)
    ELSE IF num >= den THEN 0
    ELSE FloorLog2(2 * num, den) - 1

\* max(0, floor(log2(pip_change / threshold))) if pip_change >= threshold else 0
DeepScore(pip_change, threshold) ==
    IF pip_change >= threshold THEN Max2(0, FloorLog2(pip_change, threshold)) ELSE 0

\* ------------------------------------------------------------------------
\* market_data.py, models.py, config.py : what the notifier reads
\* ------------------------------------------------------------------------
\* the supported timeframes that are whole multiples of the twelve-hour unit
Timeframes == {"D1", "W1"}

\* get_timeframe_minutes, in twelve-hour units: D1 is one day, W1 seven
GetTimeframeUnits(tf) == IF tf = "D1" THEN ACTIVE_WINDOW ELSE 7 * ACTIVE_WINDOW

\* A tick's bid and ask are whole multiples of the last decimal place of its
\* prices (at least one place); a mid price is counted in tenths of that
\* place.  (bid + ask) / Decimal(2) keeps the places of the prices when the
\* sum is even and carries one more place when it is odd.
MidPrice(bid, ask) == (bid + ask) * 5

\* TRUE when the Decimal of this mid price carries the extra decimal place
HasExtraPlace(mid) == mid % 10 # 0

\* into_pip(max - min) as the fraction num / den: the difference takes the
\* longer exponent of the two Decimals and is scaled by 10 ** (places - 1)
IntoPip(max_value, min_value) ==
    LET price_diff == max_value - min_value
        extra == HasExtraPlace(max_value) \/ HasExtraPlace(min_value)
    IN [num |-> price_diff, den |-> IF extra THEN 10 ELSE 100]

\* int(now.timestamp()): the whole seconds of a tick's timestamp.  The ticks
\* of a feed carry microseconds (market_data.py:190), and the aggregators only
\* order timestamps and floor them to bucket boundaries, which are whole
\* days; so in the notifier an even timestamp stands for a midnight and the
\* odd one after it for that midnight plus a fraction of a second, which
\* int() cuts back to the midnight.
WHOLE_SECOND == 2
IntTimestamp(now) == now - (now % WHOLE_SECOND)

\* (bid, ask) of the ticks fed to the notifier, ask > bid
TickPrices == {<<10, 11>>, <<10, 12>>, <<14, 15>>, <<14, 16>>}

\* SymbolTrackerConfig
TrackerConfig(cooldown_unit, min_buckets_calculation, num_bucket_retention) ==
    [cooldown_unit |-> cooldown_unit,
     min_buckets_calculation |-> min_buckets_calculation,
     num_bucket_retention |-> num_bucket_retention]

\* a dict without keys
EmptyDict == [k \in {} |-> None]

\* before any resolve_tracker_config call
NoResolve == [symbol |-> "", value |-> EmptyDict]

\* no operation ran since the constructor
NoCall == [op |-> "__init__"]

\* SymbolNotifierConfig.tracker = None
NoOverride == [present |-> FALSE]

\* NotifierSettings.thresholds_for; a symbol without configuration (None)
\* and one without thresholds ({}) both read as the empty dict
ThresholdsFor(cfg, symbol) ==
    IF symbol \in DOMAIN cfg.symbols THEN cfg.symbols[symbol].thresholds ELSE EmptyDict

\* the field defaults of class SymbolTrackerConfig
DefaultTrackerConfig == TrackerConfig(1, 30, EmptyDict)

\* SymbolTrackerConfig(**kwargs) as the tracker of a symbol: a field outside
\* kwargs takes its class default; fields_set is pydantic's model_fields_set
SymbolTrackerOverride(kwargs) ==
    [present |-> TRUE,
     fields_set |-> DOMAIN kwargs,
     value |-> [f \in DOMAIN DefaultTrackerConfig |->
                   IF f \in DOMAIN kwargs THEN kwargs[f] ELSE DefaultTrackerConfig[f]]]

\* model_dump(exclude_none=True): every field, whether it was set or holds
\* its default (no field of a validated SymbolTrackerConfig is None, so
\* exclude_none leaves nothing out)
ModelDump(tracker_config) ==
    [f \in DOMAIN tracker_config |-> tracker_config[f]]

\* model_copy(update=...): the fields of update replace those of the copy
ModelCopy(base, update) ==
    [f \in DOMAIN base |-> IF f \in DOMAIN update THEN update[f] ELSE base[f]]

\* NotifierSettings.resolve_tracker_config: the dump of an override holds
\* every field of the override, so the override replaces every default
ResolveTrackerConfig(cfg, symbol) ==
    IF symbol \in DOMAIN cfg.symbols /\ cfg.symbols[symbol].tracker.present
    THEN ModelCopy(cfg.tracker_defaults, ModelDump(cfg.symbols[symbol].tracker.value))
    ELSE cfg.tracker_defaults

\* ------------------------------------------------------------------------
\* notifier.py : AggStates, SymbolTracker
\* ------------------------------------------------------------------------
\* the default of AggStates.last_volatility_notification
NEVER_NOTIFIED == 0 - 99999

NewAggStates ==
    [volatility_score |-> 0, activity_score |-> 0,
     last_volatility_notification |-> NEVER_NOTIFIED,
     last_activity_notification |-> NEVER_NOTIFIED]

\* AggStates.magnitude
Magnitude(state) == state.volatility_score * (state.activity_score + 1)

\* BucketedSlidingAggregator(bucket_span, max_window) as a value
NewAggregator(span, mw) ==
    [bucket_span |-> span, max_window |-> mw, buckets |-> <<>>,
     active_window |-> NewSlidingWindowMinMax(ACTIVE_WINDOW),
     current_bucket_start |-> None, segment_tree |-> NoTree, tree_dirty |-> TRUE]

\* variant of buckets_count that also counts the open bucket
BucketsCount_CountsOpen(agg) == Len(agg.buckets) + 1

\* BucketedSlidingAggregator.buckets_count
BucketsCount(agg) == Len(agg.buckets)

\* the aggregator value after an add whose outcome is r
AggAfterAdd(agg, r) ==
    [err |-> r.err,
     agg |-> [agg EXCEPT !.buckets = r.buckets,
                         !.active_window = r.active_window,
                         !.current_bucket_start = r.current_bucket_start,
                         !.tree_dirty = r.tree_dirty]]

\* agg.add(timestamp, value) on an aggregator held as a value
AggAdd(agg, timestamp, value, id) ==
    AggAfterAdd(agg, AddOf(agg.buckets, agg.active_window, agg.current_bucket_start,
                           agg.bucket_span, agg.max_window, agg.tree_dirty,
                           timestamp, value, id))

\* the aggregator value after a query whose outcome is q
AggAfterQuery(agg, q) ==
    [outcome |-> q.outcome, result |-> q.result,
     agg |-> [agg EXCEPT !.segment_tree = q.segment_tree, !.tree_dirty = q.tree_dirty]]

\* agg.query_min_max(num_buckets) on an aggregator held as a value
AggQuery(agg, num_buckets) ==
    AggAfterQuery(agg, QueryMinMaxOf(agg.buckets, agg.active_window,
                                     agg.current_bucket_start, agg.bucket_span,
                                     agg.segment_tree, agg.tree_dirty, num_buckets))

\* a tracker: order is the insertion order of the _aggregators dict
NoAggregators == [order |-> <<>>, aggregators |-> EmptyDict, agg_states |-> EmptyDict]

\* the max_window add_agg passes: None unless the retention dict has the key
RetentionFor(retention, tf) ==
    IF DOMAIN retention # {} /\ tf \in DOMAIN retention THEN retention[tf] ELSE None

\* variant of add_agg that puts the new aggregator first in the iteration order
AddAggOf_Prepends(tr, cfg, symbol, tf) ==
    IF tf \in DOMAIN tr.aggregators \/ tf \notin Timeframes THEN tr
    ELSE [order |-> <<tf>> \o tr.order,
          aggregators |->
              (tf :> NewAggregator(
                         GetTimeframeUnits(tf),
                         RetentionFor(ResolveTrackerConfig(cfg, symbol).num_bucket_retention,
                                      tf)))
                 @@ tr.aggregators,
          agg_states |-> (tf :> NewAggStates) @@ tr.agg_states]

\* SymbolTracker.add_agg; get_timeframe_minutes raises for a timeframe that
\* is not supported, before anything is assigned
AddAggOf(tr, cfg, symbol, tf) ==
    IF tf \in DOMAIN tr.aggregators \/ tf \notin Timeframes THEN tr
    ELSE [order |-> Append(tr.order, tf),
          aggregators |->
              (tf :> NewAggregator(
                         GetTimeframeUnits(tf),
                         RetentionFor(ResolveTrackerConfig(cfg, symbol).num_bucket_retention,
                                      tf)))
                 @@ tr.aggregators,
          agg_states |-> (tf :> NewAggStates) @@ tr.agg_states]

\* SymbolTracker.__init__: add_agg for every timeframe of the thresholds, in
\* the iteration order of a set (tfs is one of its orders)
RECURSIVE AddAggs(_, _, _, _)
AddAggs(tr, cfg, symbol, tfs) ==
    IF tfs = <<>> THEN tr
    ELSE AddAggs(AddAggOf(tr, cfg, symbol, Head(tfs)), cfg, symbol, Tail(tfs))

NewSymbolTracker(cfg, symbol, tfs) == AddAggs(NoAggregators, cfg, symbol, tfs)

\* a dict without the key k
Without(d, k) == [x \in DOMAIN d \ {k} |-> d[x]]

\* a removal that deletes the aggregator and leaves its AggStates behind
RemoveAggOf_KeepsStates(tr, tf) ==
    IF tf \notin DOMAIN tr.aggregators THEN tr
    ELSE [order |-> SelectSeq(tr.order, LAMBDA t : t # tf),
          aggregators |-> Without(tr.aggregators, tf),
          agg_states |-> tr.agg_states]

\* SymbolTracker.remove_agg
RemoveAggOf(tr, tf) ==
    IF tf \notin DOMAIN tr.aggregators THEN tr
    ELSE [order |-> SelectSeq(tr.order, LAMBDA t : t # tf),
          aggregators |-> Without(tr.aggregators, tf),
          agg_states |-> Without(tr.agg_states, tf)]

\* remove_agg for every timeframe of tfs, in the order of the sequence
RECURSIVE RemoveAggs(_, _)
RemoveAggs(tr, tfs) ==
    IF tfs = <<>> THEN tr ELSE RemoveAggs(RemoveAggOf(tr, Head(tfs)), Tail(tfs))

\* the loop of on_tick over self._aggregators.values(): the first add that
\* raises ends it; a is the outcome of the add on the aggregator at position i
RECURSIVE FeedAggregators(_, _, _, _, _, _)
RECURSIVE FeedNext(_, _, _, _, _, _, _)
FeedNext(aggs, order, i, timestamp, value, id, a) ==
    IF a.err THEN [err |-> TRUE, aggregators |-> [aggs EXCEPT ![order[i]] = a.agg]]
    ELSE FeedAggregators([aggs EXCEPT ![order[i]] = a.agg], order, i + 1,
                         timestamp, value, id)

FeedAggregators(aggs, order, i, timestamp, value, id) ==
    IF i > Len(order) THEN [err |-> FALSE, aggregators |-> aggs]
    ELSE FeedNext(aggs, order, i, timestamp, value, id,
                  AggAdd(aggs[order[i]], timestamp, value, id))

\* the cooldown test of _calculate: notify on the first alert, after the
\* cooldown, or on a higher score
ShouldNotify(state, volatility_score, now, cooldown_seconds) ==
    \/ state.last_volatility_notification = NEVER_NOTIFIED
    \/ now - state.last_volatility_notification >= cooldown_seconds
    \/ volatility_score > state.volatility_score

\* variant of the loop body that stores every non-zero score and its time,
\* notified or not
ScoreTimeframe_StoresAlways(tr, tf, vol_threshold, tracker_config, now, logged, q, volatility_score) ==
    IF volatility_score > 0
    THEN [tracker |-> [tr EXCEPT
                          !.aggregators[tf] = q.agg,
                          !.agg_states[tf].volatility_score = volatility_score,
                          !.agg_states[tf].last_volatility_notification = now],
          alerts |-> IF ShouldNotify(tr.agg_states[tf], volatility_score, now,
                                     tracker_config.cooldown_unit * GetTimeframeUnits(tf))
                     THEN logged \cup {[timeframe |-> tf, score |-> volatility_score]}
                     ELSE logged]
    ELSE [tracker |-> [tr EXCEPT !.aggregators[tf] = q.agg], alerts |-> logged]

\* one pass of the loop body of _calculate after the warm-up gate, for the
\* timeframe tf whose query returned q: the tracker after it and the alerts
\* logged so far
ScoreTimeframe(tr, tf, vol_threshold, tracker_config, now, logged, q, volatility_score) ==
    IF volatility_score > 0
       /\ ShouldNotify(tr.agg_states[tf], volatility_score, now,
                       tracker_config.cooldown_unit * GetTimeframeUnits(tf))
    THEN [tracker |-> [tr EXCEPT
                          !.aggregators[tf] = q.agg,
                          !.agg_states[tf].volatility_score = volatility_score,
                          !.agg_states[tf].last_volatility_notification = now],
          alerts |-> logged \cup {[timeframe |-> tf, score |-> volatility_score]}]
    ELSE [tracker |-> [tr EXCEPT !.aggregators[tf] = q.agg], alerts |-> logged]

\* volatility_score of _calculate from the (min, max, count) a query returned
VolatilityScore(result, vol_threshold) ==
    DeepScore(IntoPip(result[2], result[1]).num,
              IntoPip(result[2], result[1]).den * vol_threshold)

\* the loop of _calculate over self._aggregators.items() from position i on:
\* the tracker after it, the alerts it logged, err when query_min_max raised
RECURSIVE CalculateFrom(_, _, _, _, _, _)
RECURSIVE CalculateNext(_, _, _, _, _, _, _)
RECURSIVE CalculateScored(_, _, _, _, _)
CalculateScored(thresholds, tracker_config, now, i, scored) ==
    CalculateFrom(scored.tracker, thresholds, tracker_config, now, i + 1, scored.alerts)

CalculateNext(tr, thresholds, tracker_config, now, i, logged, q) ==
    IF q.outcome # "ok"
    THEN [err |-> TRUE, tracker |-> [tr EXCEPT !.aggregators[tr.order[i]] = q.agg],
          alerts |-> logged]
    ELSE CalculateScored(thresholds, tracker_config, now, i,
                         ScoreTimeframe(tr, tr.order[i], thresholds[tr.order[i]][1],
                                        tracker_config, now, logged, q,
                                        VolatilityScore(q.result,
                                                        thresholds[tr.order[i]][1])))

\* variant of the loop that scores a timeframe without thresholds against
\* the pair (1, 1)
CalculateFrom_ScoresUnconfigured(tr, thresholds, tracker_config, now, i, logged) ==
    IF i > Len(tr.order) THEN [err |-> FALSE, tracker |-> tr, alerts |-> logged]
    ELSE IF BucketsCount(tr.aggregators[tr.order[i]])
               < tracker_config.min_buckets_calculation
    THEN CalculateFrom(tr, thresholds, tracker_config, now, i + 1, logged)
    ELSE CalculateNext(tr,
                       [tf \in Timeframes |->
                           IF tf \in DOMAIN thresholds THEN thresholds[tf] ELSE <<1, 1>>],
                       tracker_config, now, i, logged,
                       AggQuery(tr.aggregators[tr.order[i]], 0))

CalculateFrom(tr, thresholds, tracker_config, now, i, logged) ==
    IF i > Len(tr.order) THEN [err |-> FALSE, tracker |-> tr, alerts |-> logged]
    ELSE IF \/ tr.order[i] \notin DOMAIN thresholds
            \/ BucketsCount(tr.aggregators[tr.order[i]])
                  < tracker_config.min_buckets_calculation
    THEN CalculateFrom(tr, thresholds, tracker_config, now, i + 1, logged)
    ELSE CalculateNext(tr, thresholds, tracker_config, now, i, logged,
                       AggQuery(tr.aggregators[tr.order[i]], 0))

\* SymbolTracker._calculate; current_timestamp is int(now.timestamp())
Calculate(tr, thresholds, tracker_config, now) ==
    IF DOMAIN thresholds = {} THEN [err |-> FALSE, tracker |-> tr, alerts |-> {}]
    ELSE CalculateFrom(tr, thresholds, tracker_config, IntTimestamp(now), 1, {})

\* on_tick after the loop over the aggregators returned fed
OnTickFed(tr, cfg, symbol, timestamp, fed) ==
    IF fed.err
    THEN [err |-> TRUE, tracker |-> [tr EXCEPT !.aggregators = fed.aggregators],
          alerts |-> {}]
    ELSE Calculate([tr EXCEPT !.aggregators = fed.aggregators],
                   ThresholdsFor(cfg, symbol), ResolveTrackerConfig(cfg, symbol),
                   timestamp)

\* SymbolTracker.on_tick: the tracker after it, the alerts it logged, err
\* when an exception left it
TrackerOnTick(tr, cfg, symbol, timestamp, bid, ask, id) ==
    IF Len(tr.order) = 0 THEN [err |-> FALSE, tracker |-> tr, alerts |-> {}]
    ELSE OnTickFed(tr, cfg, symbol, timestamp,
                   FeedAggregators(tr.aggregators, tr.order, 1, timestamp,
                                   MidPrice(bid, ask), id))

\* ------------------------------------------------------------------------
\* The aggregator as a state machine
\* ------------------------------------------------------------------------
NoQuery == [left_idx |-> None, right_idx |-> None, err |-> FALSE, val |-> Neutral]

\* __init__: bucket_span must be positive, max_window is None or a count
InitAgg(spans, windows) ==
    /\ bucket_span \in spans
    /\ max_window \in windows
    /\ buckets = <<>>
    /\ active_window = NewSlidingWindowMinMax(ACTIVE_WINDOW)
    /\ current_bucket_start = None
    /\ segment_tree = NoTree
    /\ tree_dirty = TRUE
    /\ accepted = <<>>
    /\ evicted = <<>>
    /\ built_from = <<>>

\* no segment tree is built on its own
IdleTree ==
    /\ t_buckets = <<>>
    /\ t_tree = NoTree
    /\ t_query = NoQuery

\* no aggregator is fed: one with a span of one unit and no retention cap
IdleAgg == InitAgg({1}, {None})

\* no window is used on its own
IdleWindow ==
    /\ sw = NewSlidingWindowMinMax(1)
    /\ sw_added = <<>>

\* no notifier runs: one without symbols
IdleNotifier ==
    /\ config = [symbols |-> EmptyDict, tracker_defaults |-> TrackerConfig(1, 1, EmptyDict)]
    /\ trackers = EmptyDict
    /\ alerts = {}
    /\ n_ticks = 0
    /\ notified_at = EmptyDict
    /\ last_call = NoCall

\* nothing is scored on its own
IdleScore ==
    /\ sc_pip_change = 0
    /\ sc_threshold = 1
    /\ sc_score = None

\* no tick sequence is recorded
IdleTrace == ticks_of = EmptyDict

\* no tracker configuration is resolved on its own
IdleResolve == resolved = NoResolve

\* no market data handler runs
IdleHandler ==
    /\ flat_bar_counts = EmptyDict
    /\ flat_streak = EmptyDict
    /\ unsubscribed = <<>>

Init ==
    /\ InitAgg(BucketSpans, {None} \cup (0 .. MaxWindowCap))
    /\ IdleTree
    /\ IdleWindow
    /\ IdleScore
    /\ IdleNotifier
    /\ IdleTrace
    /\ IdleResolve
    /\ IdleHandler

\* add(timestamp, value)
Add(timestamp, value) ==
    /\ Len(accepted) < MaxAdds
    /\ LET r == AddOf(buckets, active_window, current_bucket_start, bucket_span,
                      max_window, tree_dirty, timestamp, value, Len(accepted) + 1)
       IN /\ buckets' = r.buckets
          /\ active_window' = r.active_window
          /\ current_bucket_start' = r.current_bucket_start
          /\ tree_dirty' = r.tree_dirty
          /\ accepted' = IF r.err THEN accepted
                         ELSE Append(accepted, WindowPoint(timestamp, value, Len(accepted) + 1))
          /\ evicted' = evicted \o r.popped
    /\ UNCHANGED <<bucket_span, max_window, segment_tree, built_from, notAggVars>>

\* query_min_max(num_buckets)
QueryMinMax(num_buckets) ==
    /\ LET q == QueryMinMaxOf(buckets, active_window, current_bucket_start, bucket_span,
                              segment_tree, tree_dirty, num_buckets)
       IN /\ segment_tree' = q.segment_tree
          /\ tree_dirty' = q.tree_dirty
          /\ built_from' = IF q.rebuilt THEN buckets ELSE built_from
    /\ UNCHANGED <<bucket_span, max_window, buckets, active_window, current_bucket_start,
                   accepted, evicted, notAggVars>>

\* get_active_direction(): reads the active window, assigns nothing
GetActiveDirection ==
    /\ GetActiveDirectionOf(active_window).outcome \in {"ok", "LookupError"}
    /\ UNCHANGED vars

Next ==
    \/ \E timestamp \in 0 .. MaxTime, value \in 1 .. MaxValue : Add(timestamp, value)
    \/ \E num_buckets \in (0 - 1) .. MaxK : QueryMinMax(num_buckets)
    \/ GetActiveDirection

Spec == Init /\ [][Next]_vars

\* ------------------------------------------------------------------------
\* The segment tree alone: built over any bucket deque, then queried
\* ------------------------------------------------------------------------
\* a bucket condensed from points of the values in vs (empty when vs is empty)
BucketOfValues(start, vs) ==
    IF vs = {} THEN Bucket(start, start + 1, DECIMAL_POS_INF, DECIMAL_NEG_INF, 0)
    ELSE Bucket(start, start + 1,
                CHOOSE v \in vs : \A u \in vs : v <= u,
                CHOOSE v \in vs : \A u \in vs : v >= u,
                Cardinality(vs))

TreeInputs ==
    UNION {[1 .. n -> SUBSET (1 .. MaxValue)] : n \in 0 .. MaxTreeLen}

InitTree ==
    /\ IdleAgg
    /\ IdleWindow
    /\ IdleScore
    /\ IdleNotifier
    /\ IdleTrace
    /\ IdleResolve
    /\ IdleHandler
    /\ \E f \in TreeInputs : t_buckets = [i \in DOMAIN f |-> BucketOfValues(i - 1, f[i])]
    /\ t_tree = NoTree
    /\ t_query = NoQuery

\* SegmentTreeMinMax(buckets)
TreeBuild ==
    /\ t_tree = NoTree
    /\ t_tree' = NewSegmentTree(t_buckets)
    /\ UNCHANGED <<notTreeVars, t_buckets, t_query>>

\* query(left_idx, right_idx)
TreeQueryCall(left_idx, right_idx) ==
    /\ t_tree # NoTree
    /\ LET q == TreeQuery(t_tree, left_idx, right_idx)
       IN t_query' = [left_idx |-> left_idx, right_idx |-> right_idx,
                      err |-> q.err, val |-> q.val]
    /\ UNCHANGED <<notTreeVars, t_buckets, t_tree>>

NextTree ==
    \/ TreeBuild
    \/ \E left_idx \in (0 - 1) .. MaxTreeLen, right_idx \in (0 - 1) .. MaxTreeLen :
          TreeQueryCall(left_idx, right_idx)

SpecTree == InitTree /\ [][NextTree]_vars

\* ------------------------------------------------------------------------
\* The sliding window alone: any positive window, any sequence of adds
\* ------------------------------------------------------------------------
\* SlidingWindowMinMax(window): a window that is not positive is refused
InitWindow ==
    /\ IdleAgg
    /\ IdleTree
    /\ IdleScore
    /\ IdleNotifier
    /\ IdleTrace
    /\ IdleResolve
    /\ IdleHandler
    /\ \E window \in 1 .. MaxWindowLen : sw = NewSlidingWindowMinMax(window)
    /\ sw_added = <<>>

\* add(timestamp, value)
SwAdd(timestamp, value) ==
    /\ Len(sw_added) < MaxAdds
    /\ LET r == WindowAdd(sw, timestamp, value, Len(sw_added) + 1)
       IN /\ sw' = r.w
          /\ sw_added' = IF r.err THEN sw_added
                         ELSE Append(sw_added, WindowPoint(timestamp, value, Len(sw_added) + 1))
    /\ UNCHANGED notWinVars

\* current_min(): reads the front of the min candidates, assigns nothing
SwCurrentMin ==
    /\ CurrentMin(sw).err \in BOOLEAN
    /\ UNCHANGED vars

\* current_max(): reads the front of the max candidates, assigns nothing
SwCurrentMax ==
    /\ CurrentMax(sw).err \in BOOLEAN
    /\ UNCHANGED vars

NextWindow ==
    \/ \E timestamp \in 0 .. MaxTime, value \in 1 .. MaxValue : SwAdd(timestamp, value)
    \/ SwCurrentMin
    \/ SwCurrentMax

SpecWindow == InitWindow /\ [][NextWindow]_vars

\* ------------------------------------------------------------------------
\* The scoring expression alone: any reading against any positive threshold
\* ------------------------------------------------------------------------
InitScore ==
    /\ IdleAgg
    /\ IdleTree
    /\ IdleWindow
    /\ IdleNotifier
    /\ IdleTrace
    /\ IdleResolve
    /\ IdleHandler
    /\ sc_pip_change \in 0 .. MaxPip
    /\ sc_threshold \in 1 .. MaxThreshold
    /\ sc_score = None

\* volatility_score = max(0, floor(log2(pip_change / vol_threshold))) if ... else 0
ComputeScore ==
    /\ sc_score = None
    /\ sc_score' = DeepScore(sc_pip_change, sc_threshold)
    /\ UNCHANGED <<notScoreVars, sc_pip_change, sc_threshold>>

NextScore == ComputeScore

SpecScore == InitScore /\ [][NextScore]_vars

\* ------------------------------------------------------------------------
\* The notifier: one configured symbol, ticks for it and for an unknown one
\* ------------------------------------------------------------------------
Symbols == {"EURUSD", "BTCUSD"}

\* the orders in which a set of timeframes can be iterated
OrdersOf(tfs) ==
    {o \in [1 .. Cardinality(tfs) -> tfs] : \A i, j \in DOMAIN o : i # j => o[i] # o[j]}

\* VolatilityNotifier(config): a tracker for every configured symbol
InitNotifier ==
    /\ IdleAgg
    /\ IdleTree
    /\ IdleWindow
    /\ IdleScore
    /\ IdleTrace
    /\ IdleResolve
    /\ IdleHandler
    /\ \E vol_threshold \in 1 .. 2, min_buckets \in 1 .. MaxMinBuckets :
          config = [symbols |->
                       [symbol \in {"EURUSD"} |->
                           [thresholds |-> [tf \in Timeframes |-> <<vol_threshold, 1>>],
                            tracker |-> NoOverride]],
                    tracker_defaults |-> TrackerConfig(1, min_buckets, EmptyDict)]
    /\ \E tfs \in OrdersOf(Timeframes) :
          trackers = [symbol \in DOMAIN config.symbols |->
                         NewSymbolTracker(config, symbol, tfs)]
    /\ alerts = {}
    /\ n_ticks = 0
    /\ notified_at = EmptyDict
    /\ last_call = NoCall

\* the log after a tick of symbol at timestamp logged the alerts logged
NotifiedAfter(symbol, timestamp, logged) ==
    [p \in DOMAIN notified_at \cup {<<symbol, a.timeframe>> : a \in logged} |->
        IF p[1] = symbol /\ \E a \in logged : a.timeframe = p[2]
        THEN timestamp ELSE notified_at[p]]

\* variant of on_tick that hands the tick to the tracker of every symbol
TickEffect_FeedsAll(symbol, timestamp, bid, ask) ==
    /\ IF symbol \notin DOMAIN trackers
       THEN alerts' = {} /\ UNCHANGED <<trackers, n_ticks, notified_at>>
       ELSE \E r \in {TrackerOnTick(trackers[symbol], config, symbol, timestamp, bid, ask,
                                    n_ticks + 1)} :
               /\ trackers' = [s \in DOMAIN trackers |->
                                  TrackerOnTick(trackers[s], config, s, timestamp, bid, ask,
                                                n_ticks + 1).tracker]
               /\ alerts' = r.alerts
               /\ n_ticks' = IF r.err \/ Len(r.tracker.order) = 0 THEN n_ticks
                             ELSE n_ticks + 1
               /\ notified_at' = NotifiedAfter(symbol, timestamp, r.alerts)
    /\ last_call' = [op |-> "on_tick"]

\* VolatilityNotifier.on_tick(symbol, tick), as what it assigns: the tick
\* goes to the tracker of the symbol, if there is one; notify_manager.flush()
\* does nothing
TickEffect(symbol, timestamp, bid, ask) ==
    /\ IF symbol \notin DOMAIN trackers
       THEN alerts' = {} /\ UNCHANGED <<trackers, n_ticks, notified_at>>
       ELSE \E r \in {TrackerOnTick(trackers[symbol], config, symbol, timestamp, bid, ask,
                                    n_ticks + 1)} :
               /\ trackers' = [trackers EXCEPT ![symbol] = r.tracker]
               /\ alerts' = r.alerts
               /\ n_ticks' = IF r.err \/ Len(r.tracker.order) = 0 THEN n_ticks
                             ELSE n_ticks + 1
               /\ notified_at' = NotifiedAfter(symbol, timestamp, r.alerts)
    /\ last_call' = [op |-> "on_tick"]

\* VolatilityNotifier.on_tick(symbol, tick)
TickStep(symbol, timestamp, bid, ask) ==
    /\ TickEffect(symbol, timestamp, bid, ask)
    /\ UNCHANGED <<notNotifierVars, config>>

OnTick(symbol, timestamp, bid, ask) ==
    /\ n_ticks < MaxTicks
    /\ TickStep(symbol, timestamp, bid, ask)

NextNotifier ==
    \E symbol \in Symbols, timestamp \in 0 .. MaxTickTime, price \in TickPrices :
        OnTick(symbol, timestamp, price[1], price[2])

SpecNotifier == InitNotifier /\ [][NextNotifier]_vars

\* ------------------------------------------------------------------------
\* The notifier under reconfiguration: update_config with any configuration
\* of the two symbols, add_agg and remove_agg called on a tracker, and ticks
\* ------------------------------------------------------------------------
\* the threshold keys of a symbol: none, W1, or D1 and W1
ThresholdKeys == {{}, {"W1"}, Timeframes}

\* the configurations: any of the symbols, each with thresholds for some of
\* the supported timeframes (a key that is not supported makes add_agg raise
\* and update_config does not return)
Configs ==
    {[symbols |->
         [symbol \in DOMAIN keys |->
             [thresholds |-> [tf \in keys[symbol] |-> <<1, 1>>], tracker |-> NoOverride]],
      tracker_defaults |-> TrackerConfig(1, 1, EmptyDict)] :
        keys \in UNION {[S -> ThresholdKeys] : S \in SUBSET Symbols}}

\* (bid, ask) of the ticks of a reconfigured notifier: a low and a high price
ConfigPrices == {<<10, 11>>, <<14, 15>>}

\* the timestamps of those ticks: the midnights of two days
ConfigTimes == {0, ACTIVE_WINDOW}

\* a timeframe get_timeframe_minutes does not know
UNSUPPORTED == "X1"

\* SymbolTracker(symbol, master) under the configuration cfg: every order in
\* which the set of the threshold keys can be iterated gives one
NewTrackers(cfg, symbol) ==
    {NewSymbolTracker(cfg, symbol, tfs) : tfs \in OrdersOf(DOMAIN ThresholdsFor(cfg, symbol))}

\* a synchronisation that adds the missing aggregators and removes none
SyncedTrackers_KeepsStale(tr, cfg, symbol) ==
    {AddAggs(tr, cfg, symbol, tfs_to_add) :
        tfs_to_add \in OrdersOf(DOMAIN ThresholdsFor(cfg, symbol) \ DOMAIN tr.aggregators)}

\* _sync_existing_trackers for one symbol: the aggregators outside the
\* thresholds of cfg are removed, then those missing are added, each set in
\* one of its iteration orders
SyncedTrackers(tr, cfg, symbol) ==
    {AddAggs(RemoveAggs(tr, tfs_to_remove), cfg, symbol, tfs_to_add) :
        tfs_to_remove \in OrdersOf(DOMAIN tr.aggregators \ DOMAIN ThresholdsFor(cfg, symbol)),
        tfs_to_add \in OrdersOf(DOMAIN ThresholdsFor(cfg, symbol) \ DOMAIN tr.aggregators)}

\* an update that constructs every tracker anew
UpdatedTrackers_Rebuilds(cfg, symbol) == NewTrackers(cfg, symbol)

\* the tracker update_config(cfg) leaves for symbol
UpdatedTrackers(cfg, symbol) ==
    IF symbol \in DOMAIN trackers THEN SyncedTrackers(trackers[symbol], cfg, symbol)
    ELSE NewTrackers(cfg, symbol)

\* the (symbol, timeframe) pairs update_config(c) logs as removed from and as
\* added to the trackers it keeps
AggsToRemove(c) ==
    {<<symbol, tf>> \in (DOMAIN trackers \cap DOMAIN c.symbols) \X Timeframes :
        /\ tf \in DOMAIN trackers[symbol].aggregators
        /\ tf \notin DOMAIN ThresholdsFor(c, symbol)}
AggsToAdd(c) ==
    {<<symbol, tf>> \in (DOMAIN trackers \cap DOMAIN c.symbols) \X Timeframes :
        /\ tf \notin DOMAIN trackers[symbol].aggregators
        /\ tf \in DOMAIN ThresholdsFor(c, symbol)}

\* what update_config(c) logs: "Config update complete" with its four
\* counts, and a line for each aggregator it removes or adds
UpdateLog(c) ==
    [op |-> "update_config",
     tracked |-> Cardinality(DOMAIN c.symbols),
     added |-> Cardinality(DOMAIN c.symbols \ DOMAIN trackers),
     removed |-> Cardinality(DOMAIN trackers \ DOMAIN c.symbols),
     updated |-> Cardinality(DOMAIN trackers \cap DOMAIN c.symbols),
     aggs_removed |-> Cardinality(AggsToRemove(c)),
     aggs_added |-> Cardinality(AggsToAdd(c))]

\* VolatilityNotifier(config)
InitConfig ==
    /\ IdleAgg
    /\ IdleTree
    /\ IdleWindow
    /\ IdleScore
    /\ IdleTrace
    /\ IdleResolve
    /\ IdleHandler
    /\ config \in Configs
    /\ trackers \in {t \in [DOMAIN config.symbols ->
                                 UNION {NewTrackers(config, symbol) : symbol \in Symbols}] :
                         \A symbol \in DOMAIN t : t[symbol] \in NewTrackers(config, symbol)}
    /\ alerts = {}
    /\ n_ticks = 0
    /\ notified_at = EmptyDict
    /\ last_call = NoCall

\* VolatilityNotifier.update_config(c): the trackers of the symbols outside
\* c are deleted, those of its new symbols created, the others synchronised
UpdateConfig(c) ==
    /\ config' = c
    /\ trackers' \in {t \in [DOMAIN c.symbols ->
                                  UNION {UpdatedTrackers(c, symbol) : symbol \in Symbols}] :
                          \A symbol \in DOMAIN t : t[symbol] \in UpdatedTrackers(c, symbol)}
    /\ last_call' = UpdateLog(c)
    /\ UNCHANGED <<notNotifierVars, alerts, n_ticks, notified_at>>

\* tracker.add_agg(tf) called on the tracker of symbol
AddAgg(symbol, tf) ==
    /\ symbol \in DOMAIN trackers
    /\ trackers' = [trackers EXCEPT ![symbol] = AddAggOf(@, config, symbol, tf)]
    /\ last_call' = [op |-> "add_agg"]
    /\ UNCHANGED <<notNotifierVars, config, alerts, n_ticks, notified_at>>

\* tracker.remove_agg(tf) called on the tracker of symbol
RemoveAgg(symbol, tf) ==
    /\ symbol \in DOMAIN trackers
    /\ trackers' = [trackers EXCEPT ![symbol] = RemoveAggOf(@, tf)]
    /\ last_call' = [op |-> "remove_agg"]
    /\ UNCHANGED <<notNotifierVars, config, alerts, n_ticks, notified_at>>

\* on_tick("EURUSD", tick), which finds no tracker when the configuration
\* lacks the symbol
ConfigTick(timestamp, bid, ask) ==
    /\ n_ticks < MaxConfigTicks
    /\ TickStep("EURUSD", timestamp, bid, ask)

NextConfig ==
    \/ \E c \in Configs : UpdateConfig(c)
    \/ \E symbol \in Symbols, tf \in Timeframes \cup {UNSUPPORTED} : AddAgg(symbol, tf)
    \/ \E symbol \in Symbols, tf \in Timeframes \cup {UNSUPPORTED} : RemoveAgg(symbol, tf)
    \/ \E timestamp \in ConfigTimes, price \in ConfigPrices :
          ConfigTick(timestamp, price[1], price[2])

SpecConfig == InitConfig /\ [][NextConfig]_vars

\* ------------------------------------------------------------------------
\* The cooldown of one (symbol, timeframe): a notifier with one symbol on D1
\* that is warm after one bucket, run long enough for a cooldown to elapse
\* ------------------------------------------------------------------------
InitCooldown ==
    /\ IdleAgg
    /\ IdleTree
    /\ IdleWindow
    /\ IdleScore
    /\ IdleTrace
    /\ IdleResolve
    /\ IdleHandler
    /\ \E cooldown_unit \in 1 .. MaxCooldownUnit :
          config = [symbols |->
                       [symbol \in {"EURUSD"} |->
                           [thresholds |-> [tf \in {"D1"} |-> <<1, 1>>],
                            tracker |-> NoOverride]],
                    tracker_defaults |-> TrackerConfig(cooldown_unit, 1, EmptyDict)]
    /\ trackers = [symbol \in DOMAIN config.symbols |->
                      NewSymbolTracker(config, symbol, <<"D1">>)]
    /\ alerts = {}
    /\ n_ticks = 0
    /\ notified_at = EmptyDict
    /\ last_call = NoCall

CooldownTick(timestamp, bid, ask) ==
    /\ n_ticks < MaxCooldownTicks
    /\ TickStep("EURUSD", timestamp, bid, ask)

NextCooldown ==
    \E timestamp \in 0 .. MaxTickTime, price \in TickPrices :
        CooldownTick(timestamp, price[1], price[2])

SpecCooldown == InitCooldown /\ [][NextCooldown]_vars

\* ------------------------------------------------------------------------
\* Resolving the tracker configuration: settings whose one symbol has any
\* override or none, resolved for that symbol and for an unconfigured one
\* ------------------------------------------------------------------------
CooldownChoices == 1 .. MaxCooldownUnit
MinBucketsChoices == (1 .. MaxMinBuckets) \cup {DefaultTrackerConfig.min_buckets_calculation}
RetentionChoices ==
    {EmptyDict, [tf \in {"D1"} |-> 1], [tf \in {"W1"} |-> 2], [tf \in Timeframes |-> 1]}

\* the keyword arguments an override can be built from
Kwargs(fields, tracker_config) == [f \in fields |-> tracker_config[f]]
OverrideKwargs ==
    {Kwargs(fields, TrackerConfig(cooldown_unit, min_buckets, retention)) :
        fields \in SUBSET DOMAIN DefaultTrackerConfig,
        cooldown_unit \in CooldownChoices, min_buckets \in MinBucketsChoices,
        retention \in RetentionChoices}

InitResolve ==
    /\ IdleAgg
    /\ IdleTree
    /\ IdleWindow
    /\ IdleScore
    /\ IdleTrace
    /\ IdleHandler
    /\ \E cooldown_unit \in CooldownChoices, min_buckets \in MinBucketsChoices,
          retention \in RetentionChoices,
          tracker \in {NoOverride} \cup {SymbolTrackerOverride(kw) : kw \in OverrideKwargs} :
          config = [symbols |->
                       [symbol \in {"EURUSD"} |->
                           [thresholds |-> EmptyDict, tracker |-> tracker]],
                    tracker_defaults |-> TrackerConfig(cooldown_unit, min_buckets, retention)]
    /\ trackers = EmptyDict
    /\ alerts = {}
    /\ n_ticks = 0
    /\ notified_at = EmptyDict
    /\ last_call = NoCall
    /\ resolved = NoResolve

\* config.resolve_tracker_config(symbol)
Resolve(symbol) ==
    /\ resolved' = [symbol |-> symbol, value |-> ResolveTrackerConfig(config, symbol)]
    /\ UNCHANGED <<aggVars, treeVars, winVars, scoreVars, notifierVars, traceVars,
                   handlerVars>>

NextResolve == \E symbol \in Symbols : Resolve(symbol)

SpecResolve == InitResolve /\ [][NextResolve]_vars

\* ------------------------------------------------------------------------
\* market_data.py : MarketDataHandler, the flat-bar check
\* ------------------------------------------------------------------------
FLAT_BAR_THRESHOLD == 30

\* a channel name as its parts between underscores: EURUSD_M1 is <<"EURUSD", "M1">>
Channels == {<<"EURUSD", "M1">>, <<"EURUSD", "M5">>, <<"BTCUSD", "M1">>}

\* _parse_channel_name of a bar channel: the first two parts of the name
ParseChannelName(channel) == <<channel[1], channel[2]>>

\* (open, high, low, close) of the bars received: a flat one and one that moves
Bars == {<<1, 1, 1, 1>>, <<1, 2, 1, 2>>}

\* self._flat_bar_counts[key] read without inserting (a defaultdict(int))
FlatBarCount(counts, key) == IF key \in DOMAIN counts THEN counts[key] ELSE 0

\* variant of _check_flat_ohlc that raises as soon as the threshold is reached
CheckFlatOhlc_AtThreshold(counts, key, bar) ==
    IF bar[1] = bar[2] /\ bar[1] = bar[3] /\ bar[1] = bar[4]
    THEN [counts |-> (key :> FlatBarCount(counts, key) + 1) @@ counts,
          raised |-> FlatBarCount(counts, key) + 1 >= FLAT_BAR_THRESHOLD]
    ELSE [counts |-> (key :> 0) @@ counts, raised |-> FALSE]

\* _check_flat_ohlc: the counts after it; raised when it raises SameOHLCError
CheckFlatOhlc(counts, key, bar) ==
    IF bar[1] = bar[2] /\ bar[1] = bar[3] /\ bar[1] = bar[4]
    THEN [counts |-> (key :> FlatBarCount(counts, key) + 1) @@ counts,
          raised |-> FlatBarCount(counts, key) + 1 > FLAT_BAR_THRESHOLD]
    ELSE [counts |-> (key :> 0) @@ counts, raised |-> FALSE]

\* _parse_channel from the bar at position i on: SameOHLCError ends it, the
\* bars after the one that raised are not read; checked is the outcome of
\* _check_flat_ohlc on the bar at position i
RECURSIVE ParseChannel(_, _, _, _)
RECURSIVE ParseNext(_, _, _, _)
ParseNext(checked, key, time_series, i) ==
    IF checked.raised THEN checked
    ELSE ParseChannel(checked.counts, key, time_series, i + 1)

ParseChannel(counts, key, time_series, i) ==
    IF i > Len(time_series) THEN [counts |-> counts, raised |-> FALSE]
    ELSE ParseNext(CheckFlatOhlc(counts, key, time_series[i]), key, time_series, i)

\* _handle_flat_bar_exception: pops the count of the key and calls
\* client.unsubscribe(symbol); called lists the symbols unsubscribed so far
HandleFlatBarException(counts, called, key) ==
    [counts |-> Without(counts, key), unsubscribed |-> Append(called, key[1])]

\* process from the channel at position i on; parsed is the outcome of
\* _parse_channel on the channel at position i
RECURSIVE ProcessFrom(_, _, _, _)
RECURSIVE ProcessNext(_, _, _, _)
ProcessNext(parsed, called, raw_data, i) ==
    IF parsed.raised
    THEN LET h == HandleFlatBarException(parsed.counts, called,
                                         ParseChannelName(raw_data[i][1]))
         IN ProcessFrom(h.counts, h.unsubscribed, raw_data, i + 1)
    ELSE ProcessFrom(parsed.counts, called, raw_data, i + 1)

ProcessFrom(counts, called, raw_data, i) ==
    IF i > Len(raw_data) THEN [counts |-> counts, unsubscribed |-> called]
    ELSE ProcessNext(ParseChannel(counts, ParseChannelName(raw_data[i][1]), raw_data[i][2], 1),
                     called, raw_data, i)

\* ------------------------------------------------------------------------
\* The market data handler fed bar data: each call of process gets a dict of
\* one or more bar channels with at most MaxBatchBars bars in all
\* ------------------------------------------------------------------------
TimeSeries == UNION {[1 .. n -> Bars] : n \in 1 .. MaxBatchBars}

\* the number of bars in the items of raw_data from position i on
RECURSIVE BarsIn(_, _)
BarsIn(raw_data, i) ==
    IF i > Len(raw_data) THEN 0 ELSE Len(raw_data[i][2]) + BarsIn(raw_data, i + 1)

\* the raw_data dicts, as the sequence of their items
RawData ==
    {raw_data \in UNION {[1 .. n -> Channels \X TimeSeries] :
                             n \in 1 .. Min2(MaxBatchBars, Cardinality(Channels))} :
        /\ \A i, j \in DOMAIN raw_data : i # j => raw_data[i][1] # raw_data[j][1]
        /\ BarsIn(raw_data, 1) <= MaxBatchBars}

\* the streak of a key by its definition: the number of flat bars in a row
\* at the end of what was read for it, counted from the bar after its last
\* non-flat bar and from 0 after a streak above the threshold; a streak that
\* passes the threshold stays at that value until the next call
Flat(bar) == bar[1] = bar[2] /\ bar[2] = bar[3] /\ bar[3] = bar[4]
RunAt(before, time_series, i) ==
    IF \E j \in 1 .. i : ~Flat(time_series[j])
    THEN i - (CHOOSE j \in 1 .. i : /\ ~Flat(time_series[j])
                                   /\ \A l \in (j + 1) .. i : Flat(time_series[l]))
    ELSE before + i
StreakOver(before, time_series) ==
    IF \E i \in DOMAIN time_series : RunAt(before, time_series, i) > FLAT_BAR_THRESHOLD
    THEN FLAT_BAR_THRESHOLD + 1
    ELSE RunAt(before, time_series, Len(time_series))
StreakAfter(key, raw_data) ==
    LET before == IF flat_streak[key] > FLAT_BAR_THRESHOLD THEN 0 ELSE flat_streak[key] IN
    IF \E i \in DOMAIN raw_data : ParseChannelName(raw_data[i][1]) = key
    THEN StreakOver(before,
                    raw_data[CHOOSE i \in DOMAIN raw_data :
                                 ParseChannelName(raw_data[i][1]) = key][2])
    ELSE before

InitHandler ==
    /\ IdleAgg
    /\ IdleTree
    /\ IdleWindow
    /\ IdleScore
    /\ IdleNotifier
    /\ IdleTrace
    /\ IdleResolve
    /\ flat_bar_counts = EmptyDict
    /\ flat_streak = [key \in {ParseChannelName(channel) : channel \in Channels} |-> 0]
    /\ unsubscribed = <<>>

\* process(raw_data)
Process(raw_data) ==
    /\ \E r \in {ProcessFrom(flat_bar_counts, <<>>, raw_data, 1)} :
          /\ flat_bar_counts' = r.counts
          /\ unsubscribed' = r.unsubscribed
    /\ flat_streak' = [key \in DOMAIN flat_streak |-> StreakAfter(key, raw_data)]
    /\ UNCHANGED notHandlerVars

NextHandler == \E raw_data \in RawData : Process(raw_data)

SpecHandler == InitHandler /\ [][NextHandler]_vars

\* ------------------------------------------------------------------------
\* Two symbols side by side: a notifier with a tracker for each, fed ticks
\* of both in any interleaving; ticks_of records what each symbol was fed
\* ------------------------------------------------------------------------
IsolationOrder == <<"D1", "W1">>

InitIsolation ==
    /\ IdleAgg
    /\ IdleTree
    /\ IdleWindow
    /\ IdleScore
    /\ IdleResolve
    /\ IdleHandler
    /\ config = [symbols |->
                     [symbol \in Symbols |->
                         [thresholds |-> [tf \in Timeframes |-> <<1, 1>>],
                          tracker |-> NoOverride]],
                  tracker_defaults |-> TrackerConfig(1, 1, EmptyDict)]
    /\ trackers = [symbol \in DOMAIN config.symbols |->
                      NewSymbolTracker(config, symbol, IsolationOrder)]
    /\ alerts = {}
    /\ n_ticks = 0
    /\ notified_at = EmptyDict
    /\ last_call = NoCall
    /\ ticks_of = [symbol \in Symbols |-> <<>>]

\* on_tick(symbol, tick)
IsolationTick(symbol, timestamp, bid, ask) ==
    /\ Len(ticks_of["EURUSD"]) + Len(ticks_of["BTCUSD"]) < MaxIsolationTicks
    /\ TickEffect(symbol, timestamp, bid, ask)
    /\ ticks_of' = [ticks_of EXCEPT ![symbol] = Append(@, <<timestamp, bid, ask>>)]
    /\ UNCHANGED <<aggVars, treeVars, winVars, scoreVars, resolveVars, handlerVars, config>>

NextIsolation ==
    \E symbol \in Symbols, timestamp \in ConfigTimes, price \in ConfigPrices :
        IsolationTick(symbol, timestamp, price[1], price[2])

SpecIsolation == InitIsolation /\ [][NextIsolation]_vars

\* ------------------------------------------------------------------------
\* Reference definitions the properties compare the code against
\* ------------------------------------------------------------------------
SetMin(S) == CHOOSE x \in S : \A y \in S : x <= y
SetMax(S) == CHOOSE x \in S : \A y \in S : x >= y

\* query_min_max(k) and add(ts, v) evaluated in the current state
Q(k) == QueryMinMaxOf(buckets, active_window, current_bucket_start, bucket_span,
                      segment_tree, tree_dirty, k)
A(ts, v) == AddOf(buckets, active_window, current_bucket_start, bucket_span,
                  max_window, tree_dirty, ts, v, Len(accepted) + 1)

\* what a caller sees of query_min_max(k) when the aggregator's data is the
\* current one and its tree cache is (st, dirty), and of query_min_max(k)
\* called right after add(ts, v) from there
QueryWith(st, dirty, k) ==
    QueryMinMaxOf(buckets, active_window, current_bucket_start, bucket_span, st, dirty, k)
AnswerOf(q) == <<q.outcome, q.result>>
AddWith(dirty, ts, v) ==
    AddOf(buckets, active_window, current_bucket_start, bucket_span, max_window, dirty,
          ts, v, Len(accepted) + 1)
QueryAfter(r, st, k) ==
    QueryMinMaxOf(r.buckets, r.active_window, r.current_bucket_start, bucket_span,
                  st, r.tree_dirty, k)

\* a window, an aggregator and a tracker without the labels the model gives
\* the points to tell two objects apart
Unlabelled(points) ==
    [i \in DOMAIN points |-> [timestamp |-> points[i].timestamp, value |-> points[i].value]]
UnlabelledWindow(w) ==
    [window |-> w.window, points |-> Unlabelled(w.points),
     min_candidates |-> Unlabelled(w.min_candidates),
     max_candidates |-> Unlabelled(w.max_candidates)]
UnlabelledTracker(tr) ==
    [tr EXCEPT !.aggregators =
        [tf \in DOMAIN tr.aggregators |->
            [tr.aggregators[tf] EXCEPT !.active_window = UnlabelledWindow(@)]]]

\* the tracker of symbol after it alone was fed the ticks from position i on
RECURSIVE ReplayTicks(_, _, _, _)
ReplayTicks(tr, symbol, ticks, i) ==
    IF i > Len(ticks) THEN tr
    ELSE ReplayTicks(TrackerOnTick(tr, config, symbol, ticks[i][1], ticks[i][2], ticks[i][3],
                                   i).tracker,
                     symbol, ticks, i + 1)

\* the latest timestamp any add accepted so far
LatestAccepted == SetMax({accepted[i].timestamp : i \in DOMAIN accepted})

\* the accepted points (by position) whose timestamp lies in [start, start + span)
PointsIn(pts, start, span) ==
    {i \in DOMAIN pts : start <= pts[i].timestamp /\ pts[i].timestamp < start + span}

\* exact (min, max, count) of the points at the positions idx
TrueStats(pts, idx) ==
    IF idx = {} THEN Neutral
    ELSE <<SetMin({pts[i].value : i \in idx}), SetMax({pts[i].value : i \in idx}),
           Cardinality(idx)>>

\* what the open bucket's window reports: (min, max, count)
ActiveStats ==
    LET stats == GetActiveWindowStats(active_window) IN <<stats[1], stats[3], stats[5]>>

\* linear scan of the retained buckets at the positions idx, merged with base
ScanBuckets(bks, idx, base) ==
    <<SetMin({base[1]} \cup {bks[i].min_value : i \in idx}),
      SetMax({base[2]} \cup {bks[i].max_value : i \in idx}),
      SetMax({base[3]} \cup {bks[i].count : i \in idx})>>

\* the retained buckets inside the time horizon of a lookback of k bucket spans
InHorizon(k) ==
    {i \in DOMAIN buckets : buckets[i].start >= current_bucket_start - k * bucket_span}

\* the accepted points (by position) of the open bucket
OpenPoints == PointsIn(accepted, current_bucket_start, bucket_span)

\* the latest of the points at the positions idx that has the value v
LatestWith(pts, idx, v) ==
    pts[SetMax({i \in idx : pts[i].value = v})]

\* the points (by position) a window on its own must still hold: those newer
\* than the last add's timestamp minus the window
SwRetained ==
    {i \in DOMAIN sw_added : sw_added[i].timestamp > Last(sw_added).timestamp - sw.window}

\* the score _calculate must give the open bucket of an aggregator value
OpenBucketScore(agg, vol_threshold) ==
    VolatilityScore(<<CurrentMin(agg.active_window).point.value,
                      CurrentMax(agg.active_window).point.value, 0>>, vol_threshold)

\* the score a tick must compute for the timeframe tf of the tracker tr it
\* left behind: that of the open bucket once the timeframe has thresholds and
\* is warm, 0 (not scored) before
FreshScore(tr, cfg, symbol, tf) ==
    IF /\ tf \in DOMAIN ThresholdsFor(cfg, symbol)
       /\ Len(tr.aggregators[tf].buckets)
             >= ResolveTrackerConfig(cfg, symbol).min_buckets_calculation
    THEN OpenBucketScore(tr.aggregators[tf], ThresholdsFor(cfg, symbol)[tf][1])
    ELSE 0

\* the timestamp of the tick that was fed last to an aggregator value
LastTickAt(agg) == Last(agg.active_window.points).timestamp

\* cooldown_unit * timeframe_seconds of a timeframe of a symbol
CooldownOf(cfg, symbol, tf) ==
    ResolveTrackerConfig(cfg, symbol).cooldown_unit * GetTimeframeUnits(tf)

\* the quantity a score measures in a (min, max, count) reading: the price
\* range for "volatility", the tick count for "activity"
Measured(result, kind) == IF kind = "volatility" THEN result[2] - result[1] ELSE result[3]

\* the broad score of the specification (section 4.5): the number of
\* lookbacks 1, 2, 4, ... within the retained history, counted up to the
\* first one at which the reading of the open bucket no longer exceeds the
\* 80th percentile of what query_min_max(lookback) reports
RECURSIVE Broad(_, _, _)
Broad(agg, kind, lookback) ==
    IF \/ lookback > BucketsCount(agg)
       \/ 5 * Measured(AggQuery(agg, 0).result, kind)
             <= 4 * Measured(AggQuery(agg, lookback).result, kind)
    THEN 0
    ELSE 1 + Broad(agg, kind, 2 * lookback)

\* the trackers match the configuration: the tracked symbols are the
\* configured ones, and the aggregators of each are those of its thresholds
TrackersMatchConfig ==
    /\ DOMAIN trackers = DOMAIN config.symbols
    /\ \A symbol \in DOMAIN trackers :
          DOMAIN trackers[symbol].aggregators = DOMAIN ThresholdsFor(config, symbol)

\* 2 to the power d
RECURSIVE Pow2(_)
Pow2(d) == IF d = 0 THEN 1 ELSE 2 * Pow2(d - 1)

\* the accepted points (by position) that lie in no evicted bucket
NonEvicted ==
    {i \in DOMAIN accepted :
        \A j \in DOMAIN evicted :
            ~(evicted[j].start <= accepted[i].timestamp
                /\ accepted[i].timestamp < evicted[j].end)}

\* ------------------------------------------------------------------------
\* C1: an add whose timestamp is older than the latest accepted one fails,
\* and the history, the open bucket's start, the active window's points,
\* buckets_count, every query_min_max(k) and get_active_direction() are what
\* they were before the call.
\* ------------------------------------------------------------------------
C1_RejectedAddIsNoOp ==
    \A ts \in 0 .. MaxTime, v \in 1 .. MaxValue :
        (accepted # <<>> /\ ts < LatestAccepted) =>
            LET r == A(ts, v) IN
            /\ r.err
            /\ r.buckets = buckets
            /\ r.current_bucket_start = current_bucket_start
            /\ r.active_window.points = active_window.points
            /\ Len(r.buckets) = Len(buckets)
            \* with every field the same the reads are the same; otherwise compare them
            /\ \/ r.active_window = active_window /\ r.tree_dirty = tree_dirty
               \/ /\ GetActiveDirectionOf(r.active_window) = GetActiveDirectionOf(active_window)
                  /\ \A k \in 0 .. MaxK :
                        LET q == QueryMinMaxOf(r.buckets, r.active_window,
                                               r.current_bucket_start, bucket_span,
                                               segment_tree, r.tree_dirty, k)
                            q0 == Q(k)
                        IN q.outcome = q0.outcome /\ q.result = q0.result

C1_Witness ==
    /\ Len(buckets) >= 1
    /\ Len(active_window.points) >= 2
    /\ \E ts \in 0 .. MaxTime : ts < LatestAccepted /\ ts < Last(buckets).end /\ A(ts, 1).err
    /\ \E ts \in 0 .. MaxTime : ts < LatestAccepted /\ ts >= Last(buckets).end /\ A(ts, 1).err

\* ------------------------------------------------------------------------
\* C2: the timestamps of the accepted adds are non-decreasing over the whole
\* lifetime: an add is rejected exactly when its timestamp is older than the
\* latest accepted one (an equal or later timestamp is accepted).
\* ------------------------------------------------------------------------
C2_AcceptedTimestampsMonotone ==
    /\ \A i, j \in DOMAIN accepted :
          i < j => accepted[i].timestamp <= accepted[j].timestamp
    /\ \A ts \in 0 .. MaxTime, v \in 1 .. MaxValue :
          A(ts, v).err <=> (accepted # <<>> /\ ts < LatestAccepted)

C2_Witness ==
    /\ Len(evicted) >= 1
    /\ Len(accepted) >= 3
    /\ accepted[Len(accepted)].timestamp = accepted[Len(accepted) - 1].timestamp
    /\ LatestAccepted >= 1

\* ------------------------------------------------------------------------
\* C3: after any accepted adds, for any bucket_span, query_min_max(0) is the
\* exact (min, max, count) of the points accepted into the open bucket.
\* ------------------------------------------------------------------------
C3_ActiveQueryExact ==
    accepted # <<>> =>
        /\ Q(0).outcome = "ok"
        /\ Q(0).result = TrueStats(accepted,
                                   PointsIn(accepted, current_bucket_start, bucket_span))

\* ------------------------------------------------------------------------
\* C4: an accepted add that aligns to another bucket start appends exactly
\* one Bucket: start = the old open start, end = start + bucket_span, and
\* min/max/count those of exactly the accepted points in [start, end); the
\* new active window holds only the new point.
\* ------------------------------------------------------------------------
C4_CondensationExact ==
    [][ (accepted' # accepted /\ current_bucket_start # None
            /\ current_bucket_start' # current_bucket_start) =>
        LET before == evicted \o buckets
            after == evicted' \o buckets'
            stats == TrueStats(accepted,
                               PointsIn(accepted, current_bucket_start, bucket_span))
        IN /\ Len(after) = Len(before) + 1
           /\ SubSeq(after, 1, Len(before)) = before
           /\ Last(after) = Bucket(current_bucket_start, current_bucket_start + bucket_span,
                                   stats[1], stats[2], stats[3])
           /\ active_window'.points = <<Last(accepted')>>
      ]_vars

\* ------------------------------------------------------------------------
\* C5: for k > 0, query_min_max(k) is the merge (min of mins, max of maxes,
\* max of counts) of the active window and exactly the retained buckets with
\* start >= current_bucket_start - k * bucket_span; older buckets and skipped
\* spans contribute nothing.
\* ------------------------------------------------------------------------
C5_TimeBasedLookback ==
    \A k \in 1 .. MaxK :
        current_bucket_start # None =>
            LET expected == ScanBuckets(buckets, InHorizon(k), ActiveStats)
                q == Q(k)
            IN IF expected[1] = DECIMAL_POS_INF
               THEN q.outcome = "LookupError"
               ELSE q.outcome = "ok" /\ q.result = expected

C5_Witness ==
    /\ Len(buckets) = 2
    /\ ~tree_dirty
    /\ InHorizon(1) = {}
    /\ InHorizon(2) = {2}
    /\ buckets[1].min_value < buckets[2].min_value
    /\ buckets[1].min_value < ActiveStats[1]

\* ------------------------------------------------------------------------
\* C6: for k >= ceil(total_elapsed / bucket_span), query_min_max(k) is the
\* true min and max over every non-evicted point ever added, with the count
\* of the fullest retained or open bucket.
\* ------------------------------------------------------------------------
C6_FullHistoryEquivalence ==
    accepted # <<>> =>
        LET elapsed == accepted[Len(accepted)].timestamp - accepted[1].timestamp
            enough == (elapsed + bucket_span - 1) \div bucket_span
            starts == {(accepted[i].timestamp \div bucket_span) * bucket_span : i \in NonEvicted}
        IN \A k \in 0 .. MaxK :
              k >= enough =>
                 LET q == Q(k) IN
                 /\ q.outcome = "ok"
                 /\ q.result[1] = SetMin({accepted[i].value : i \in NonEvicted})
                 /\ q.result[2] = SetMax({accepted[i].value : i \in NonEvicted})
                 /\ q.result[3] =
                       SetMax({Cardinality(PointsIn(accepted, st, bucket_span) \cap NonEvicted) :
                                  st \in starts})

\* ------------------------------------------------------------------------
\* C7: for every bucket sequence of length n >= 1 and every valid range
\* 0 <= left <= right <= n - 1, query(left, right) equals the linear scan
\* of buckets[left..right], an empty bucket contributing the neutral element.
\* ------------------------------------------------------------------------
C7_TreeQueryEqualsLinearScan ==
    (/\ t_query # NoQuery
     /\ 0 <= t_query.left_idx
     /\ t_query.left_idx <= t_query.right_idx
     /\ t_query.right_idx <= Len(t_buckets) - 1) =>
        /\ ~t_query.err
        /\ t_query.val = ScanBuckets(t_buckets,
                                     (t_query.left_idx + 1) .. (t_query.right_idx + 1),
                                     Neutral)

C7_Witness ==
    /\ Len(t_buckets) = 3
    /\ t_query.left_idx = 1
    /\ t_query.right_idx = 2
    /\ t_buckets[1].count = 2
    /\ t_buckets[2].count = 0
    /\ t_buckets[3].count = 1
    /\ t_query.val = <<t_buckets[3].min_value, t_buckets[3].max_value, 1>>

\* ------------------------------------------------------------------------
\* C8: with max_window set, buckets_count never exceeds max_window; with
\* max_window None no bucket is ever evicted.
\* ------------------------------------------------------------------------
C8_RetentionBound ==
    /\ max_window # None => Len(buckets) <= max_window
    /\ max_window = None => evicted = <<>>

C8_Witness ==
    /\ max_window = 1
    /\ Len(buckets) = 1
    /\ Len(evicted) >= 1

\* ------------------------------------------------------------------------
\* C9: eviction removes the retained bucket with the smallest start, an
\* evicted bucket never comes back into the history, and no query_min_max(k)
\* returns anything but what the retained buckets and the open bucket hold.
\* ------------------------------------------------------------------------
C9_EvictionFifoFinal ==
    /\ \A i \in DOMAIN evicted : \A j \in DOMAIN buckets :
          evicted[i].start < buckets[j].start
    /\ \A i, j \in DOMAIN evicted : i < j => evicted[i].start < evicted[j].start
    /\ \A k \in 0 .. MaxK :
          LET q == Q(k)
              all == ScanBuckets(buckets, DOMAIN buckets, ActiveStats)
          IN q.outcome = "ok" =>
                /\ q.result[1] >= all[1]
                /\ q.result[2] <= all[2]
                /\ q.result[3] <= all[3]

C9_Witness ==
    /\ Len(evicted) >= 1
    /\ Len(buckets) >= 1
    /\ ~tree_dirty
    /\ evicted[1].min_value < ScanBuckets(buckets, DOMAIN buckets, ActiveStats)[1]
    /\ Q(MaxK).outcome = "ok"

\* ------------------------------------------------------------------------
\* C10: whenever query_min_max reads the segment tree, the tree was built
\* from exactly the current history (same length, same min/max/count per
\* bucket), and a rebuild happens only when the history changed since the
\* last build.
\* ------------------------------------------------------------------------
C10_TreeNeverStale ==
    \A k \in 0 .. MaxK :
        LET q == Q(k) IN
        /\ q.read_tree =>
              /\ q.segment_tree.n = Len(buckets)
              /\ \A i \in DOMAIN buckets :
                    TreeQuery(q.segment_tree, i - 1, i - 1).val =
                        <<buckets[i].min_value, buckets[i].max_value, buckets[i].count>>
        /\ q.rebuilt => (segment_tree = NoTree \/ built_from # buckets)

C10_Witness ==
    /\ ~tree_dirty
    /\ Len(evicted) >= 1
    /\ Len(buckets) >= 1
    /\ built_from = buckets
    /\ Q(1).read_tree

\* ------------------------------------------------------------------------
\* C11: in every reachable state the starts of the retained buckets are
\* strictly increasing in history order, and every bucket start and the
\* open bucket's start is a whole multiple of bucket_span after the epoch.
\* ------------------------------------------------------------------------
C11_StartsIncreasingAndAligned ==
    /\ \A i, j \in DOMAIN buckets : i < j => buckets[i].start < buckets[j].start
    /\ \A i \in DOMAIN buckets : buckets[i].start % bucket_span = 0
    /\ \A i \in DOMAIN evicted : evicted[i].start % bucket_span = 0
    /\ current_bucket_start # None => current_bucket_start % bucket_span = 0

C11_Witness ==
    /\ bucket_span >= 2
    /\ Len(buckets) >= 1
    /\ current_bucket_start >= bucket_span
    /\ accepted[1].timestamp % bucket_span # 0
    /\ Last(accepted).timestamp % bucket_span # 0

\* ------------------------------------------------------------------------
\* C12: the bucket a timestamp t is assigned to is the one clock-aligned
\* start s with s <= t < s + bucket_span, whatever was added before: it does
\* not depend on the first tick or on any earlier tick.
\* ------------------------------------------------------------------------
C12_AlignDependsOnTimestampOnly ==
    /\ \A ts \in 0 .. MaxTime, v \in 1 .. MaxValue :
          LET r == A(ts, v) IN
          ~r.err =>
             /\ \E m \in 0 .. MaxTime : r.current_bucket_start = m * bucket_span
             /\ r.current_bucket_start <= ts
             /\ ts < r.current_bucket_start + bucket_span
    /\ accepted # <<>> =>
          /\ current_bucket_start <= Last(accepted).timestamp
          /\ Last(accepted).timestamp < current_bucket_start + bucket_span

C12_Witness ==
    /\ bucket_span = 2
    /\ Len(accepted) >= 2
    /\ accepted[1].timestamp = 1
    /\ Last(accepted).timestamp = 3
    /\ current_bucket_start = 2
    /\ buckets # <<>>

\* ------------------------------------------------------------------------
\* C13: one accepted add, however many bucket spans after the open bucket,
\* appends at most one Bucket, the condensed previous open bucket; every
\* Bucket ever materialized holds an accepted point, and a lookback that
\* covers only skipped spans returns what the open bucket alone returns.
\* ------------------------------------------------------------------------
C13_SkippedSpansMaterializeNothing ==
    [][ accepted' # accepted =>
        LET before == evicted \o buckets
            after == evicted' \o buckets'
        IN /\ Len(after) <= Len(before) + 1
           /\ Len(after) = Len(before) + 1 =>
                 /\ SubSeq(after, 1, Len(before)) = before
                 /\ Last(after).start = current_bucket_start
           /\ \A i \in DOMAIN after :
                 \E j \in DOMAIN accepted :
                    /\ after[i].start <= accepted[j].timestamp
                    /\ accepted[j].timestamp < after[i].end
           /\ \A k \in 1 .. MaxK :
                 (/\ current_bucket_start # None
                  /\ current_bucket_start' - k * bucket_span > current_bucket_start) =>
                     LET qk == QueryMinMaxOf(buckets', active_window', current_bucket_start',
                                             bucket_span, segment_tree', tree_dirty', k)
                         q0 == QueryMinMaxOf(buckets', active_window', current_bucket_start',
                                             bucket_span, segment_tree', tree_dirty', 0)
                     IN qk.outcome = "ok" /\ qk.result = q0.result
      ]_vars

C13_Witness ==
    /\ Len(accepted) = 2
    /\ Len(buckets) = 1
    /\ bucket_span = 1
    /\ current_bucket_start >= Last(buckets).end + bucket_span
    /\ Q(1).outcome = "ok"
    /\ Q(1).result = Q(0).result
    /\ Q(1).result # Q(MaxK + 1).result

\* ------------------------------------------------------------------------
\* C14: on an aggregator that holds no data query_min_max(k) fails with
\* LookupError for every k >= 0, and a query that succeeds never returns
\* the neutral element or a zero count.
\* ------------------------------------------------------------------------
C14_EmptyQueryIsLookupError ==
    \A k \in 0 .. MaxK :
        LET q == Q(k) IN
        /\ accepted = <<>> => q.outcome = "LookupError"
        /\ q.outcome = "ok" =>
              /\ q.result[1] # DECIMAL_POS_INF
              /\ q.result[2] # DECIMAL_NEG_INF
              /\ q.result[3] >= 1

C14_Witness ==
    /\ accepted = <<>>
    /\ buckets = <<>>
    /\ bucket_span = 2
    /\ max_window = 0
    /\ Q(0).outcome = "LookupError"
    /\ Q(MaxK).outcome = "LookupError"

\* ------------------------------------------------------------------------
\* C15: query_min_max with num_buckets < 0 fails with ValueError whatever
\* the aggregator holds, and leaves the segment tree and the dirty flag
\* (the only fields a query may assign) as they were.
\* ------------------------------------------------------------------------
C15_NegativeLookbackRejected ==
    \A k \in (0 - MaxK) .. (0 - 1) :
        LET q == Q(k) IN
        /\ q.outcome = "ValueError"
        /\ q.segment_tree = segment_tree
        /\ q.tree_dirty = tree_dirty
        /\ ~q.rebuilt

C15_Witness ==
    /\ tree_dirty
    /\ Len(buckets) >= 1
    /\ segment_tree = NoTree
    /\ Q(0 - 1).outcome = "ValueError"
    /\ Q(1).rebuilt

\* ------------------------------------------------------------------------
\* C16: get_active_direction() is the value of the later extreme minus the
\* value of the earlier extreme of the open bucket's points: max - min when
\* the minimum point is not later than the maximum point, min - max
\* otherwise.
\* ------------------------------------------------------------------------
C16_DirectionOfOpenBucket ==
    accepted # <<>> =>
        LET lo == SetMin({accepted[i].value : i \in OpenPoints})
            hi == SetMax({accepted[i].value : i \in OpenPoints})
            lo_point == LatestWith(accepted, OpenPoints, lo)
            hi_point == LatestWith(accepted, OpenPoints, hi)
            d == GetActiveDirectionOf(active_window)
        IN /\ d.outcome = "ok"
           /\ d.result = IF lo_point.timestamp <= hi_point.timestamp
                         THEN hi - lo ELSE lo - hi

\* ------------------------------------------------------------------------
\* C17: after any accepted adds to a SlidingWindowMinMax the retained
\* points are exactly the added points with timestamp > (timestamp of the
\* last add) - window, and current_min() / current_max() return the exact
\* minimum / maximum value over them.
\* ------------------------------------------------------------------------
C17_WindowMinMaxExact ==
    sw_added # <<>> =>
        /\ sw.points = SelectSeq(sw_added, LAMBDA p : p.id \in SwRetained)
        /\ ~CurrentMin(sw).err
        /\ ~CurrentMax(sw).err
        /\ CurrentMin(sw).point.value = SetMin({sw_added[i].value : i \in SwRetained})
        /\ CurrentMax(sw).point.value = SetMax({sw_added[i].value : i \in SwRetained})

C17_Witness ==
    /\ Len(sw_added) = 3
    /\ Len(sw.points) = 2
    /\ sw_added[1].value < CurrentMin(sw).point.value
    /\ sw_added[1].timestamp = Last(sw_added).timestamp - sw.window
    /\ sw_added[2].timestamp > sw_added[1].timestamp

\* ------------------------------------------------------------------------
\* C18: SlidingWindowMinMax.add with a timestamp earlier than the last
\* added point's fails with ValueError and leaves the point queue and both
\* candidate deques as they were; current_min() and current_max() fail with
\* LookupError when the window holds no points.
\* ------------------------------------------------------------------------
C18_WindowErrors ==
    /\ \A ts \in 0 .. MaxTime, v \in 1 .. MaxValue :
          (sw_added # <<>> /\ ts < Last(sw_added).timestamp) =>
             LET r == WindowAdd(sw, ts, v, Len(sw_added) + 1) IN
             /\ r.err
             /\ r.w.points = sw.points
             /\ r.w.min_candidates = sw.min_candidates
             /\ r.w.max_candidates = sw.max_candidates
    /\ Len(sw.points) = 0 => CurrentMin(sw).err /\ CurrentMax(sw).err

C18_Witness ==
    /\ Len(sw.points) >= 2
    /\ Len(sw.points) < Len(sw_added)
    /\ Last(sw_added).timestamp >= 1
    /\ WindowAdd(sw, Last(sw_added).timestamp - 1, 1, Len(sw_added) + 1).err

C20_WarmUpGate ==
    [][ n_ticks' = n_ticks + 1 =>
        \A symbol \in DOMAIN trackers :
            trackers'[symbol] # trackers[symbol] =>
            LET before == trackers[symbol]
                after == trackers'[symbol]
                thresholds == ThresholdsFor(config, symbol)
                tracker_config == ResolveTrackerConfig(config, symbol)
            IN \A tf \in DOMAIN after.aggregators :
                  LET agg == after.aggregators[tf]
                      tick == Last(agg.active_window.points)
                      score == OpenBucketScore(agg, thresholds[tf][1])
                      alert == [timeframe |-> tf, score |-> score]
                  IN /\ tick.id = n_ticks'
                     /\ Len(agg.buckets) < tracker_config.min_buckets_calculation =>
                           /\ after.agg_states[tf] = before.agg_states[tf]
                           /\ \A a \in alerts' : a.timeframe # tf
                     /\ (/\ Len(agg.buckets) >= tracker_config.min_buckets_calculation
                         /\ score > 0
                         /\ ShouldNotify(before.agg_states[tf], score,
                                         IntTimestamp(tick.timestamp),
                                         tracker_config.cooldown_unit * GetTimeframeUnits(tf)))
                        => /\ alert \in alerts'
                           /\ after.agg_states[tf].volatility_score = score
                           /\ after.agg_states[tf].last_volatility_notification
                                 = IntTimestamp(tick.timestamp)
      ]_vars

C20_Witness ==
    /\ n_ticks = 3
    /\ "EURUSD" \in DOMAIN trackers
    /\ LET tr == trackers["EURUSD"]
           min_buckets == ResolveTrackerConfig(config, "EURUSD").min_buckets_calculation
       IN /\ Len(tr.aggregators["D1"].buckets) = min_buckets
          /\ \E a \in alerts : a.timeframe = "D1" /\ a.score >= 1
          /\ tr.agg_states["D1"].last_volatility_notification # NEVER_NOTIFIED
          /\ Len(tr.aggregators["W1"].buckets) < min_buckets
          /\ Last(tr.aggregators["W1"].active_window.points).id = n_ticks
          /\ OpenBucketScore(tr.aggregators["W1"], 1) >= 1
          /\ tr.agg_states["W1"] = NewAggStates

\* ------------------------------------------------------------------------
\* C21: a tick whose score for a (symbol, timeframe) is non-zero logs an
\* alert for it if and only if no alert was notified for it before (IDLE) or
\* the score is strictly higher than the last notified score.
\* ------------------------------------------------------------------------
C21_NotifyIffIdleOrHigher ==
    [][ n_ticks' = n_ticks + 1 =>
        \A symbol \in DOMAIN trackers :
            trackers'[symbol] # trackers[symbol] =>
            \A tf \in DOMAIN trackers'[symbol].aggregators :
                LET state == trackers[symbol].agg_states[tf]
                    score == FreshScore(trackers'[symbol], config, symbol, tf)
                IN score > 0 =>
                      ((\E a \in alerts' : a.timeframe = tf)
                         <=> (\/ state.last_volatility_notification = NEVER_NOTIFIED
                              \/ score > state.volatility_score))
      ]_vars

\* ------------------------------------------------------------------------
\* C22: while less than cooldown_unit * timeframe_seconds has elapsed since
\* the tick that logged the latest alert of a (symbol, timeframe), a tick
\* whose score is the same as or lower than the last notified score logs no
\* alert for it.
\* ------------------------------------------------------------------------
C22_NoRepeatDuringCooldown ==
    [][ n_ticks' = n_ticks + 1 =>
        \A symbol \in DOMAIN trackers :
            trackers'[symbol] # trackers[symbol] =>
            \A tf \in DOMAIN trackers'[symbol].aggregators :
                LET state == trackers[symbol].agg_states[tf]
                    now == LastTickAt(trackers'[symbol].aggregators[tf])
                IN (/\ <<symbol, tf>> \in DOMAIN notified_at
                    /\ now - notified_at[<<symbol, tf>>] < CooldownOf(config, symbol, tf)
                    /\ FreshScore(trackers'[symbol], config, symbol, tf)
                          <= state.volatility_score)
                   => ~(\E a \in alerts' : a.timeframe = tf)
      ]_vars

\* ------------------------------------------------------------------------
\* C23: when a tick arrives a cooldown or more after the previous tick of a
\* (symbol, timeframe), so that the cooldown has elapsed since the last
\* trigger, and its own score is zero (no re-escalation), the stored score
\* is one less than before, and a stored score of 0 is the IDLE state.
\* ------------------------------------------------------------------------
C23_Stepdown ==
    [][ n_ticks' = n_ticks + 1 =>
        \A symbol \in DOMAIN trackers :
            trackers'[symbol] # trackers[symbol] =>
            \A tf \in DOMAIN trackers'[symbol].aggregators :
                LET state == trackers[symbol].agg_states[tf]
                    after == trackers'[symbol].agg_states[tf]
                    now == LastTickAt(trackers'[symbol].aggregators[tf])
                IN (/\ state.volatility_score > 0
                    /\ now - LastTickAt(trackers[symbol].aggregators[tf])
                          >= CooldownOf(config, symbol, tf)
                    /\ FreshScore(trackers'[symbol], config, symbol, tf) = 0)
                   => /\ after.volatility_score = state.volatility_score - 1
                      /\ after.volatility_score = 0
                            => after.last_volatility_notification = NEVER_NOTIFIED
      ]_vars

\* ------------------------------------------------------------------------
\* C24: every tick whose score for a (symbol, timeframe) is non-zero sets
\* the cooldown clock of that pair to the tick's time, whether or not it
\* logs an alert.
\* ------------------------------------------------------------------------
C24_TriggerResetsClock ==
    [][ n_ticks' = n_ticks + 1 =>
        \A symbol \in DOMAIN trackers :
            trackers'[symbol] # trackers[symbol] =>
            \A tf \in DOMAIN trackers'[symbol].aggregators :
                FreshScore(trackers'[symbol], config, symbol, tf) > 0
                => trackers'[symbol].agg_states[tf].last_volatility_notification
                      = IntTimestamp(LastTickAt(trackers'[symbol].aggregators[tf]))
      ]_vars

C26_CombinedScores ==
    [][ \A symbol \in DOMAIN trackers :
            \A tf \in DOMAIN trackers[symbol].agg_states :
                (/\ trackers'[symbol] # trackers[symbol]
                 /\ \E a \in alerts' : a.timeframe = tf)
                => LET agg == trackers'[symbol].aggregators[tf]
                       kept == trackers'[symbol].agg_states[tf]
                       reading == AggQuery(agg, 0).result
                       threshold == ThresholdsFor(config, symbol)[tf]
                   IN /\ kept.volatility_score
                            = VolatilityScore(reading, threshold[1])
                                 * Broad(agg, "volatility", 1)
                      /\ kept.activity_score
                            = DeepScore(reading[3], threshold[2]) * Broad(agg, "activity", 1)
                      /\ Magnitude(kept)
                            = kept.volatility_score * (kept.activity_score + 1)
      ]_vars

\* ------------------------------------------------------------------------
\* C27: when update_config(c) has returned, whatever the trackers were
\* before (also when add_agg or remove_agg had taken them away from the
\* configuration), the tracked symbols are the symbols of c and the
\* timeframes with an aggregator are, for every tracked symbol, the keys of
\* its thresholds in c.
\* ------------------------------------------------------------------------
C27_UpdateConfigSyncs ==
    last_call.op = "update_config" => TrackersMatchConfig

\* an update_config that removed one tracker and, in the one it kept,
\* removed one aggregator and added another
C27_Witness ==
    /\ last_call.op = "update_config"
    /\ last_call.removed = 1
    /\ last_call.updated = 1
    /\ last_call.aggs_removed = 1
    /\ last_call.aggs_added = 1
    /\ TrackersMatchConfig

\* ------------------------------------------------------------------------
\* C28: update_config keeps what stays configured: a tracker present before
\* and after keeps, for every timeframe that has an aggregator before and
\* after, the aggregator with its buckets and open bucket and the AggStates
\* with its scores and notification times; and update_config with the
\* configuration the trackers already match leaves the trackers as they are.
\* ------------------------------------------------------------------------
C28_UpdateConfigPreserves ==
    [][ last_call'.op = "update_config"
        => /\ \A symbol \in DOMAIN trackers \cap DOMAIN trackers' :
                 \A tf \in DOMAIN trackers[symbol].aggregators
                              \cap DOMAIN trackers'[symbol].aggregators :
                     /\ trackers'[symbol].aggregators[tf] = trackers[symbol].aggregators[tf]
                     /\ trackers'[symbol].agg_states[tf] = trackers[symbol].agg_states[tf]
           /\ (TrackersMatchConfig /\ config' = config) => trackers' = trackers
      ]_vars

\* an update_config that added an aggregator next to one that holds three
\* ticks and the score of an alert
C28_Witness ==
    /\ last_call.op = "update_config"
    /\ last_call.updated >= 1
    /\ last_call.aggs_added = 1
    /\ "EURUSD" \in DOMAIN trackers
    /\ DOMAIN trackers["EURUSD"].aggregators = Timeframes
    /\ trackers["EURUSD"].agg_states["D1"].volatility_score > 0
    /\ BucketsCount(trackers["EURUSD"].aggregators["D1"]) >= 1
    /\ Len(trackers["EURUSD"].aggregators["D1"].active_window.points) >= 2
    /\ Len(trackers["EURUSD"].aggregators["W1"].active_window.points) = 0

\* ------------------------------------------------------------------------
\* C29: in every state a tracker can reach by construction, add_agg,
\* remove_agg, update_config and on_tick, the timeframes that have an
\* aggregator are exactly those that have an AggStates; and add_agg for a
\* timeframe that has an aggregator, like remove_agg for one that has none,
\* changes nothing.
\* ------------------------------------------------------------------------
C29_AggregatorsAndStatesPaired ==
    /\ \A symbol \in DOMAIN trackers :
          /\ DOMAIN trackers[symbol].aggregators = DOMAIN trackers[symbol].agg_states
          /\ {trackers[symbol].order[i] : i \in DOMAIN trackers[symbol].order}
                = DOMAIN trackers[symbol].aggregators
    /\ \A symbol \in DOMAIN trackers, tf \in Timeframes \cup {UNSUPPORTED} :
          /\ tf \in DOMAIN trackers[symbol].aggregators
                => AddAggOf(trackers[symbol], config, symbol, tf) = trackers[symbol]
          /\ tf \notin DOMAIN trackers[symbol].aggregators
                => RemoveAggOf(trackers[symbol], tf) = trackers[symbol]

\* a tracker that lost its D1 aggregator to remove_agg after an alert and
\* keeps the W1 aggregator with the ticks it was fed
C29_Witness ==
    /\ last_call.op = "remove_agg"
    /\ "EURUSD" \in DOMAIN trackers
    /\ DOMAIN trackers["EURUSD"].aggregators = {"W1"}
    /\ DOMAIN trackers["EURUSD"].agg_states = {"W1"}
    /\ Len(trackers["EURUSD"].aggregators["W1"].active_window.points) >= 1
    /\ <<"EURUSD", "D1">> \in DOMAIN notified_at

\* ------------------------------------------------------------------------
\* C30: a timeframe that has an aggregator and no threshold pair in the
\* current configuration is skipped by the scoring of a tick: the tick (the
\* ticks are those of EURUSD) logs no alert for it and leaves its AggStates
\* as it was, and every alert a tick logs is for a timeframe with thresholds
\* and carries a score of at least 1.
\* ------------------------------------------------------------------------
C30_MissingThresholdDropped ==
    [][ last_call'.op = "on_tick"
        => /\ \A symbol \in DOMAIN trackers :
                 \A tf \in DOMAIN trackers[symbol].aggregators :
                     tf \notin DOMAIN ThresholdsFor(config, symbol)
                     => /\ symbol = "EURUSD" => \A a \in alerts' : a.timeframe # tf
                        /\ trackers'[symbol].agg_states[tf] = trackers[symbol].agg_states[tf]
           /\ \A a \in alerts' :
                 /\ a.timeframe \in DOMAIN ThresholdsFor(config, "EURUSD")
                 /\ a.score >= 1
      ]_vars

\* a tick fed to a D1 aggregator that add_agg created next to the configured
\* W1: it is warm and its open bucket would score against a threshold of 1,
\* and the tick logged nothing and left its AggStates as constructed
C30_Witness ==
    /\ last_call.op = "on_tick"
    /\ "EURUSD" \in DOMAIN trackers
    /\ DOMAIN ThresholdsFor(config, "EURUSD") = {"W1"}
    /\ "D1" \in DOMAIN trackers["EURUSD"].aggregators
    /\ BucketsCount(trackers["EURUSD"].aggregators["D1"])
          >= ResolveTrackerConfig(config, "EURUSD").min_buckets_calculation
    /\ Len(trackers["EURUSD"].aggregators["D1"].active_window.points) >= 2
    /\ OpenBucketScore(trackers["EURUSD"].aggregators["D1"], 1) > 0
    /\ trackers["EURUSD"].agg_states["D1"] = NewAggStates
    /\ alerts = {}

\* ------------------------------------------------------------------------
\* C32: query(left, right) on a tree over n buckets fails with the range
\* error whenever left < 0 or right >= n or left > right, for every n
\* including n = 0; an invalid range is never answered with a value.
\* ------------------------------------------------------------------------
C32_InvalidRangeFails ==
    (/\ t_tree # NoTree
     /\ t_query # NoQuery
     /\ \/ t_query.left_idx < 0
        \/ t_query.right_idx >= t_tree.n
        \/ t_query.left_idx > t_query.right_idx) => t_query.err

\* ------------------------------------------------------------------------
\* C34: in every reachable aggregator state, for any retention cap,
\* query_min_max(k) with k >= 0 never triggers the segment tree's range
\* error: whenever the tree is queried its size equals the history length n
\* and the indices satisfy 0 <= left <= right = n - 1.
\* ------------------------------------------------------------------------
C34_TreeQueryInRange ==
    \A k \in 0 .. MaxK :
        \E q \in {Q(k)} :
            /\ q.outcome # "ValueError"
            /\ q.read_tree =>
                  \E left_idx \in {FindFirstBucketInRange(buckets,
                                       current_bucket_start - k * bucket_span)} :
                      /\ q.segment_tree.n = Len(buckets)
                      /\ 0 <= left_idx
                      /\ left_idx <= Len(buckets) - 1
                      /\ ValidRange(q.segment_tree.n, left_idx, Len(buckets) - 1)

C34_Witness ==
    /\ Len(buckets) = 2
    /\ ~tree_dirty
    /\ segment_tree.n = 2
    /\ Q(1).read_tree
    /\ FindFirstBucketInRange(buckets, current_bucket_start - bucket_span) = 1
    /\ Q(2).read_tree
    /\ FindFirstBucketInRange(buckets, current_bucket_start - 2 * bucket_span) = 0

\* ------------------------------------------------------------------------
\* C35: once one add has been accepted the open bucket is never empty:
\* in every later state query_min_max(k) succeeds for every k >= 0 (no
\* lookup error), get_active_direction() succeeds, and the returned count
\* is at least 1.
\* ------------------------------------------------------------------------
C35_OpenBucketNeverEmpty ==
    accepted # <<>> =>
        /\ Len(active_window.points) >= 1
        /\ GetActiveDirectionOf(active_window).outcome = "ok"
        /\ \A k \in 0 .. MaxK :
              \E q \in {Q(k)} :
                  /\ q.outcome = "ok"
                  /\ q.result[3] >= 1

C35_Witness ==
    /\ bucket_span > ACTIVE_WINDOW
    /\ Len(accepted) >= 3
    /\ Len(active_window.points) = 1
    /\ Cardinality(OpenPoints) >= 2
    /\ Q(0).outcome = "ok"
    /\ GetActiveDirectionOf(active_window).outcome = "ok"

\* ------------------------------------------------------------------------
\* C36: every retained Bucket is well-formed: count >= 1, min <= max,
\* end = start + bucket_span, consecutive buckets do not overlap (the end
\* of one is at most the start of the next), and the last bucket's end is
\* at most the open bucket's start.
\* ------------------------------------------------------------------------
C36_BucketsWellFormed ==
    /\ \A i \in DOMAIN buckets :
          /\ buckets[i].count >= 1
          /\ buckets[i].min_value <= buckets[i].max_value
          /\ buckets[i].end = buckets[i].start + bucket_span
    /\ \A i \in 1 .. (Len(buckets) - 1) : buckets[i].end <= buckets[i + 1].start
    /\ Len(buckets) >= 1 => Last(buckets).end <= current_bucket_start

C36_Witness ==
    /\ Len(buckets) = 2
    /\ buckets[1].end < buckets[2].start
    /\ buckets[2].end = current_bucket_start
    /\ buckets[1].count = 1
    /\ buckets[1].min_value # buckets[2].min_value

\* ------------------------------------------------------------------------
\* C38: in any non-empty state the lookback is monotone: k1 <= k2 implies
\* min(k2) <= min(k1), max(k2) >= max(k1) and count(k2) >= count(k1); and
\* queries are read-only observations: a query between adds never changes
\* the result of a later query or of a later add.
\* ------------------------------------------------------------------------
C38_LookbackMonotoneQueriesReadOnly ==
    [][/\ accepted' # <<>> =>
             \A k1 \in 0 .. MaxK, k2 \in 0 .. MaxK :
                 k1 <= k2 =>
                     \E q1 \in {QueryMinMaxOf(buckets', active_window', current_bucket_start',
                                              bucket_span', segment_tree', tree_dirty', k1)},
                        q2 \in {QueryMinMaxOf(buckets', active_window', current_bucket_start',
                                              bucket_span', segment_tree', tree_dirty', k2)} :
                         /\ q1.outcome = "ok" /\ q2.outcome = "ok"
                         /\ q2.result[1] <= q1.result[1]
                         /\ q2.result[2] >= q1.result[2]
                         /\ q2.result[3] >= q1.result[3]
       /\ (segment_tree' # segment_tree \/ tree_dirty' # tree_dirty) /\ accepted' = accepted =>
             /\ UNCHANGED <<bucket_span, max_window, buckets, active_window,
                            current_bucket_start>>
             /\ \A k \in 0 .. MaxK :
                   AnswerOf(QueryWith(segment_tree', tree_dirty', k)) = AnswerOf(Q(k))
             /\ \A ts \in 0 .. MaxTime, v \in 1 .. MaxValue :
                   \E r0 \in {A(ts, v)}, r1 \in {AddWith(tree_dirty', ts, v)} :
                       /\ r1.err = r0.err
                       /\ r1.buckets = r0.buckets
                       /\ r1.active_window = r0.active_window
                       /\ r1.current_bucket_start = r0.current_bucket_start
                       /\ \A k \in 0 .. MaxK :
                             AnswerOf(QueryAfter(r1, segment_tree', k)) =
                                 AnswerOf(QueryAfter(r0, segment_tree, k))
      ]_vars

C38_Witness ==
    /\ Len(buckets) = 2
    /\ ~tree_dirty
    /\ segment_tree.n = 2
    /\ Q(1).outcome = "ok"
    /\ Q(2).result[1] < Q(1).result[1]
    /\ Q(1).result = Q(0).result

\* ------------------------------------------------------------------------
\* C39: provided bucket_span is at most one day, the active window's
\* one-day expiry never drops a point of the open bucket: in every
\* reachable state the window's points are exactly the points accepted
\* since the last boundary crossing.
\* ------------------------------------------------------------------------
C39_ExpiryKeepsOpenBucket ==
    bucket_span <= ACTIVE_WINDOW =>
        /\ active_window.points =
              SelectSeq(accepted,
                        LAMBDA p : /\ current_bucket_start # None
                                   /\ current_bucket_start <= p.timestamp
                                   /\ p.timestamp < current_bucket_start + bucket_span)
        /\ Len(active_window.points) = Cardinality(OpenPoints)

C39_Witness ==
    /\ bucket_span = ACTIVE_WINDOW
    /\ Len(buckets) >= 1
    /\ Len(active_window.points) = 2
    /\ active_window.points[1].timestamp = current_bucket_start
    /\ active_window.points[2].timestamp = current_bucket_start + bucket_span - 1

\* ------------------------------------------------------------------------
\* C37: SymbolTracker.on_tick is all-or-nothing across timeframes in every
\* reachable state, also after timeframes were added or removed at
\* different times: a tick is either accepted by every aggregator, or it
\* is rejected by the first aggregator before any aggregator or AggStates
\* is modified.
\* ------------------------------------------------------------------------
C37_OnTickAllOrNothing ==
    \A symbol \in DOMAIN trackers, timestamp \in ConfigTimes, price \in ConfigPrices :
        \E tr \in {trackers[symbol]} :
            Len(tr.order) > 0 =>
                \E fed \in {FeedAggregators(tr.aggregators, tr.order, 1, timestamp,
                                            MidPrice(price[1], price[2]), n_ticks + 1)} :
                    IF fed.err
                    THEN /\ AggAdd(tr.aggregators[tr.order[1]], timestamp,
                                   MidPrice(price[1], price[2]), n_ticks + 1).err
                         /\ fed.aggregators = tr.aggregators
                         /\ \E r \in {OnTickFed(tr, config, symbol, timestamp, fed)} :
                               r.err /\ r.tracker = tr /\ r.alerts = {}
                    ELSE \A tf \in DOMAIN tr.aggregators :
                            \E a \in {AggAdd(tr.aggregators[tf], timestamp,
                                             MidPrice(price[1], price[2]), n_ticks + 1)} :
                                /\ ~a.err
                                /\ fed.aggregators[tf] = a.agg

C37_Witness ==
    /\ "EURUSD" \in DOMAIN trackers
    /\ trackers["EURUSD"].order = <<"W1", "D1">>
    /\ Len(trackers["EURUSD"].aggregators["W1"].active_window.points) >= 1
    /\ Last(trackers["EURUSD"].aggregators["W1"].active_window.points).timestamp = 2
    /\ trackers["EURUSD"].aggregators["D1"] = NewAggregator(GetTimeframeUnits("D1"), None)
    /\ FeedAggregators(trackers["EURUSD"].aggregators, trackers["EURUSD"].order, 1, 0,
                       MidPrice(10, 11), n_ticks + 1).err
    /\ ~AggAdd(trackers["EURUSD"].aggregators["D1"], 0, MidPrice(10, 11), n_ticks + 1).err

\* ------------------------------------------------------------------------
\* C33: resolve_tracker_config(symbol) merges the symbol's override with
\* tracker_defaults: every field the override does not specify keeps the
\* value of tracker_defaults, and an overridden num_bucket_retention
\* replaces the whole default map (it is never merged key by key).
\* ------------------------------------------------------------------------
C33_OverrideMergesWithDefaults ==
    (/\ resolved # NoResolve
     /\ resolved.symbol \in DOMAIN config.symbols
     /\ config.symbols[resolved.symbol].tracker.present) =>
        \E tracker \in {config.symbols[resolved.symbol].tracker} :
            \A f \in DOMAIN DefaultTrackerConfig :
                resolved.value[f] = IF f \in tracker.fields_set THEN tracker.value[f]
                                    ELSE config.tracker_defaults[f]

\* ------------------------------------------------------------------------
\* C31: trackers of different symbols share no mutable state: on_tick(A,
\* tick) changes no aggregator and no AggStates of the tracker of another
\* symbol B, so the state of each symbol's tracker after a run depends only
\* on that symbol's own tick sequence and the configuration, not on how
\* the ticks of other symbols are interleaved with it.
\* ------------------------------------------------------------------------
C31_TrackersIsolated ==
    \A symbol \in DOMAIN ticks_of :
        UnlabelledTracker(trackers[symbol]) =
            UnlabelledTracker(ReplayTicks(NewSymbolTracker(config, symbol, IsolationOrder),
                                          symbol, ticks_of[symbol], 1))

C31_Witness ==
    /\ DOMAIN ticks_of = Symbols
    /\ Len(ticks_of["EURUSD"]) = 3
    /\ ticks_of["BTCUSD"] = <<<<ACTIVE_WINDOW, 14, 15>>>>
    /\ Last(trackers["BTCUSD"].aggregators["D1"].active_window.points).id = 2
    /\ Last(trackers["EURUSD"].aggregators["D1"].active_window.points).id = 4
    /\ BucketsCount(trackers["EURUSD"].aggregators["D1"]) = 1
    /\ BucketsCount(trackers["BTCUSD"].aggregators["D1"]) = 0
    /\ trackers["EURUSD"].agg_states["D1"] # NewAggStates
    /\ trackers["BTCUSD"].agg_states["D1"] = NewAggStates

====
